---- MODULE Spec2Model ----
(***************************************************************************)
(* Model of the GABA adaptive banded semi-global alignment engine of       *)
(* minialign (src/gaba.c): the fill chain (phantom block, initial fetch,   *)
(* ungapped filter, block fill, joint tail), the leaf search and the       *)
(* traceback with its path bit stream and section array.                   *)
(* Vectors are tuples of BW 8-bit signed cells, one per lane of the band.   *)
(***************************************************************************)
EXTENDS Integers, Sequences, FiniteSets, TLC

\* ------------------------------------------------------------------------
\* constants of the build
\* ------------------------------------------------------------------------
LINEAR == 1
AFFINE == 2
BW == 32
BLK == 32
MIN_BULK_BLOCKS == 32
PSUM_BASE == 1
CONT == 0
UPDATE == 256
TERM == 512
UPDATE_A == 15
UPDATE_B == 240

Lanes == 0 .. (BW - 1)
Half == BW \div 2

\* ------------------------------------------------------------------------
\* 8-bit lane arithmetic (the vector primitives of the arch headers)
\* a vector is a tuple of BW cells, lane i of the code is element i + 1
\* ------------------------------------------------------------------------
\* two's complement wrap of an integer into int8_t
W8(x) == ((x + 128) % 256) - 128

\* the byte of an int8_t seen as uint8_t
U8(x) == x % 256

Max2(a, b) == IF a >= b THEN a ELSE b
Min2(a, b) == IF a <= b THEN a ELSE b

\* B at the value e: a value that is used more than once is computed once
Bind(e, B(_)) == B(e)

\* the tuple whose lane i is F(i)
MkVec(F(_)) == [k \in 1 .. BW |-> F(k - 1)] \o <<>>
lane(v, i) == v[i + 1]

add_n(u, v) == [k \in 1 .. BW |-> W8(u[k] + v[k])] \o <<>>
sub_n(u, v) == [k \in 1 .. BW |-> W8(u[k] - v[k])] \o <<>>
max_n(u, v) == [k \in 1 .. BW |-> Max2(u[k], v[k])] \o <<>>
set_n(c) == [k \in 1 .. BW |-> c] \o <<>>
\* lanes on which the two vectors are equal (the bit mask of _mask_n(_eq_n))
eq_n(u, v) == {i \in Lanes : u[i + 1] = v[i + 1]}
\* byte shift towards the higher lanes, lane 0 is filled with zero
bsl_n(u) == [k \in 1 .. BW |-> IF k = 1 THEN 0 ELSE u[k - 1]] \o <<>>
\* byte shift towards the lower lanes, the top lane is filled with zero
bsr_n(u) == [k \in 1 .. BW |-> IF k = BW THEN 0 ELSE u[k + 1]] \o <<>>

\* horizontal maximum of a vector
hmax_w(v) ==
    CHOOSE x \in {v[k] : k \in 1 .. BW} : \A k \in 1 .. BW : v[k] <= x

\* ------------------------------------------------------------------------
\* scoring parameters and the structures built by gaba_init
\* ------------------------------------------------------------------------
\* params: [model, m, x, gi, ge, xdrop, tf] with positive penalties

\* substitution score of a pair of 4-bit symbols after _shuf_n(sb, a & b)
score_sb(p, idx) ==
    IF idx = 0 THEN W8((-p.x) + 2 * (p.ge + p.gi))
               ELSE W8(p.m + 2 * (p.ge + p.gi))

\* the four gap slots stored by gaba_init_create_score_vector
gaba_init_create_score_vector(p) ==
    IF p.model = LINEAR
    THEN [adjh |-> 0, adjv |-> 0,
          ofsh |-> W8(-(p.ge + p.gi)), ofsv |-> W8(-(p.ge + p.gi))]
    ELSE [adjh |-> W8(p.gi), adjv |-> W8(p.gi),
          ofsh |-> W8(p.ge + p.gi), ofsv |-> W8(-(p.ge + p.gi))]

dir_coef(p) ==
    IF p.model = LINEAR THEN (-p.m) - 2 * (p.ge + p.gi)
                        ELSE (-p.m) - 2 * p.ge

ZeroBits == [k \in 1 .. 32 |-> 0] \o <<>>

\* direction register: 8-bit accumulator and 32 direction bits (bit 0 = LSB)
gaba_init_create_dir_dynamic(p) ==
    [acc |-> W8((dir_coef(p) * BW) \div 2 - dir_coef(p) * (Half - 1)),
     array |-> [k \in 1 .. 32 |-> IF k = 32 THEN 1 ELSE 0] \o <<>>]

small_relax == -(128 \div BW)

gaba_init_create_small_delta(p) ==
    LET sd(i) == IF i < Half THEN W8(small_relax * (Half - i))
                             ELSE W8(small_relax * (i - Half))
        v == MkVec(sd)
    IN  [delta |-> v, max |-> v]

middle_coef(p) ==
    IF p.model = LINEAR THEN (-p.m) - 2 * (p.ge + p.gi) + (128 \div BW)
                        ELSE (-p.m) - 2 * p.ge + (128 \div BW)

middle_ofs(p) == IF p.model = LINEAR THEN 0 ELSE -p.gi

\* 16-bit middle delta (shared by every block of a context)
gaba_init_fill_middle_delta(p) ==
    LET md(i) ==
            IF i = Half THEN 0
            ELSE IF i < Half THEN middle_ofs(p) + middle_coef(p) * (Half - i)
            ELSE middle_ofs(p) + middle_coef(p) * (i - Half)
    IN  MkVec(md)

\* 32-bit lane shift of a byte vector by three bits (_shl_n(v, 3)): the top
\* three bits of a byte move into the next byte of the same 32-bit word
shl3_n(v) ==
    [k \in 1 .. BW |->
        W8(((U8(v[k]) * 8) % 256)
           + (IF (k - 1) % 4 = 0 THEN 0 ELSE U8(v[k - 1]) \div 32))] \o <<>>

\* 32-bit lane logical right shift by three bits (_shr_n(v, 3))
shr3_n(v) ==
    [k \in 1 .. BW |->
        W8((U8(v[k]) \div 8)
           + (IF (k - 1) % 4 = 3 THEN 0 ELSE (U8(v[k + 1]) % 8) * 32))] \o <<>>

\* difference vectors of the root block, as stored in the block
gaba_init_create_diff_vectors(p) ==
    IF p.model = LINEAR
    THEN LET raise == W8(p.m + 2 * (p.ge + p.gi))
             ldh(i) == IF i >= Half THEN raise ELSE 0
             ldv(i) == IF i <= Half THEN raise ELSE 0
         IN  [dh |-> MkVec(ldh), dv |-> MkVec(ldv)]
    ELSE LET ofs_dh == W8(p.ge + p.gi)
             ofs_de == W8(p.gi)
             drop_dh == W8((-p.ge) + ofs_dh)
             raise_dh == W8(p.m + p.ge + ofs_dh)
             drop_de == W8((-p.gi) + ofs_de)
             raise_de == ofs_de
             adh(i) == IF i = Half THEN W8(raise_dh + p.gi)
                       ELSE IF i < Half THEN drop_dh ELSE raise_dh
             adv(i) == IF i = Half THEN W8(raise_dh + p.gi)
                       ELSE IF i < Half THEN raise_dh ELSE drop_dh
             ade(i) == IF i < Half THEN raise_de ELSE drop_de
             adf(i) == IF i <= Half THEN drop_de ELSE raise_de
         IN  [dh |-> add_n(shl3_n(MkVec(adh)), MkVec(ade)),
              dv |-> add_n(shl3_n(MkVec(adv)), MkVec(adf))]

gaba_init_create_char_vector == [a |-> set_n(0), b |-> set_n(0)]

\* ------------------------------------------------------------------------
\* sequences and sections
\* ------------------------------------------------------------------------
\* complement table of fill_load_seq_a / fill_load_seq_b
comp(c) ==
    8 * (c % 2) + 4 * ((c \div 2) % 2) + 2 * ((c \div 4) % 2) + ((c \div 8) % 2)

\* symbol j (from 0) of a section: a forward section reads the sequence
\* upwards from its base, a section on the mirrored (reverse-complement)
\* strand reads it downwards through the complement table
section_sym(seq, sec, j) ==
    IF sec.rev THEN comp(seq[sec.base + sec.len - j])
               ELSE seq[sec.base + j + 1]

\* _match of two 4-bit symbols (bitwise and)
and4(a, b) ==
    ((a % 2) * (b % 2)) + 2 * (((a \div 2) % 2) * ((b \div 2) % 2))
    + 4 * (((a \div 4) % 2) * ((b \div 4) % 2))
    + 8 * (((a \div 8) % 2) * ((b \div 8) % 2))

\* ------------------------------------------------------------------------
\* block fill
\* ------------------------------------------------------------------------
and7_n(v) == [k \in 1 .. BW |-> U8(v[k]) % 8] \o <<>>
andn7_n(v) == [k \in 1 .. BW |-> W8(U8(v[k]) - (U8(v[k]) % 8))] \o <<>>

\* _fill_load_context: registers of a block loaded from the block before it
fill_load_context(p, pblk) ==
    IF p.model = LINEAR
    THEN [dh |-> pblk.dh, dv |-> pblk.dv, de |-> <<>>, df |-> <<>>,
          delta |-> pblk.delta, max |-> pblk.max,
          acc |-> pblk.acc, array |-> pblk.array, offset |-> pblk.offset,
          a |-> pblk.cha, b |-> pblk.chb, mask |-> <<>>, mm |-> <<>>,
          acnt |-> 0, bcnt |-> 0, i |-> 0, stop |-> FALSE]
    ELSE LET dh == shr3_n(andn7_n(pblk.dh))
             dv == shr3_n(andn7_n(pblk.dv))
         IN  [dh |-> sub_n(set_n(0), dh), dv |-> dv,
              de |-> add_n(dv, and7_n(pblk.dh)),
              df |-> add_n(dh, and7_n(pblk.dv)),
              delta |-> pblk.delta, max |-> pblk.max,
              acc |-> pblk.acc, array |-> pblk.array, offset |-> pblk.offset,
              a |-> pblk.cha, b |-> pblk.chb, mask |-> <<>>, mm |-> <<>>,
              acnt |-> 0, bcnt |-> 0, i |-> 0, stop |-> FALSE]

\* _match and the shuffle by the score vector: the substitution score of
\* each lane
fill_match(p, r) ==
    [k \in 1 .. BW |-> score_sb(p, and4(r.a[k], r.b[k]))] \o <<>>

\* _fill_body: one anti-diagonal of the band; r holds the shifted vectors
fill_body(p, sc, r) ==
    IF p.model = LINEAR
    THEN Bind(max_n(r.dv, max_n(r.dh, fill_match(p, r))),
              LAMBDA t : [r EXCEPT !.mask = Append(@, [h |-> eq_n(t, r.dv),
                                                       v |-> eq_n(t, r.dh),
                                                       e |-> {}, f |-> {}]),
                                   !.dh = sub_n(t, r.dv),
                                   !.dv = sub_n(t, r.dh)])
    ELSE Bind(max_n(r.df, max_n(r.de, fill_match(p, r))),
              LAMBDA t :
                  LET de1 == add_n(r.de, set_n(sc.adjh))
                      te == max_n(de1, t)
                      df1 == add_n(r.df, set_n(sc.adjv))
                      tf == max_n(df1, t)
                  IN  [r EXCEPT !.mask = Append(@, [h |-> eq_n(t, r.de),
                                                    v |-> eq_n(t, r.df),
                                                    e |-> eq_n(te, de1),
                                                    f |-> eq_n(tf, df1)]),
                                !.de = add_n(te, r.dh),
                                !.df = sub_n(tf, r.dv),
                                !.dv = add_n(r.dh, t),
                                !.dh = sub_n(r.dv, t)])

\* a variant that leaves the max vector as it is
fill_update_delta_keep_max(r, vec, ofs, sign) ==
    LET d == IF sign = 1 THEN add_n(r.delta, add_n(vec, set_n(ofs)))
                         ELSE sub_n(r.delta, add_n(vec, set_n(ofs)))
    IN  [r EXCEPT !.delta = d,
                  !.acc = W8(@ + sign * (lane(vec, 0) - lane(vec, BW - 1)))]

\* _fill_update_delta with _dir_update: sign = 1 adds, sign = -1 subtracts
fill_update_delta(r, vec, ofs, sign) ==
    LET d == IF sign = 1 THEN add_n(r.delta, add_n(vec, set_n(ofs)))
                         ELSE sub_n(r.delta, add_n(vec, set_n(ofs)))
    IN  [r EXCEPT !.delta = d,
                  !.max = max_n(r.max, d),
                  !.acc = W8(@ + sign * (lane(vec, 0) - lane(vec, BW - 1)))]

\* _fill_right after _fill_right_update_ptr: the a window takes symbol ca
fill_right(p, sc, r, ca) ==
    Bind(fill_body(p, sc,
             [r EXCEPT !.a = <<ca>> \o SubSeq(r.a, 1, BW - 1),
                       !.acnt = @ + 1,
                       !.dh = bsl_n(r.dh),
                       !.df = IF p.model = LINEAR THEN @ ELSE bsl_n(r.df)]),
         LAMBDA r2 : fill_update_delta(r2, r2.dh, sc.ofsh,
                         IF p.model = LINEAR THEN 1 ELSE -1))

\* _fill_down after _fill_down_update_ptr: the b window takes symbol cb
fill_down(p, sc, r, cb) ==
    Bind(fill_body(p, sc,
             [r EXCEPT !.b = SubSeq(r.b, 2, BW) \o <<cb>>,
                       !.bcnt = @ + 1,
                       !.dv = bsr_n(r.dv),
                       !.de = IF p.model = LINEAR THEN @ ELSE bsr_n(r.de)]),
         LAMBDA r2 : fill_update_delta(r2, r2.dv, sc.ofsv, 1))

\* left shift of the 32 direction bits by n
shl_bits(arr, n) ==
    [k \in 1 .. 32 |-> IF k <= n THEN 0 ELSE arr[k - n]] \o <<>>

\* logical right shift of the 32 direction bits by n
shr_bits(arr, n) ==
    [k \in 1 .. 32 |-> IF k + n > 32 THEN 0 ELSE arr[k + n]] \o <<>>

\* number of the bits that are set
popcnt(arr) == Cardinality({k \in 1 .. Len(arr) : arr[k] = 1})

\* c: the reader context, [p, sc, md, seqa, seqb, asec, bsec, cur]; the
\* next symbol comes from the section (fill_bulk_fetch, fill_cap_fetch) or,
\* when a block cur is refilled, from its char vector (fill_restore_fetch)
next_a(c, pblk, r) ==
    IF c.cur = <<>>
    THEN section_sym(c.seqa, c.asec, (c.asec.len - pblk.aridx) + r.acnt)
    ELSE lane(c.cur[1].cha, (pblk.aridx - c.cur[1].aridx) - 1 - r.acnt)
next_b(c, pblk, r) ==
    IF c.cur = <<>>
    THEN section_sym(c.seqb, c.bsec, (c.bsec.len - pblk.bridx) + r.bcnt)
    ELSE lane(c.cur[1].chb,
              BW - (pblk.bridx - c.cur[1].bridx) + r.bcnt)

\* one turn of the fill loop of a block: _dir_fetch, the pointer update, the
\* sequence bound test of the cap fill (with its windback), then the update
fill_step(c, pblk, r, cap) ==
    IF r.stop THEN r
    ELSE LET down == r.acc < 0
             arr == <<IF down THEN 1 ELSE 0>> \o SubSeq(r.array, 1, 31)
             acnt == IF down THEN r.acnt ELSE r.acnt + 1
             bcnt == IF down THEN r.bcnt + 1 ELSE r.bcnt
         IN  IF cap /\ (pblk.aridx - acnt < 0 \/ pblk.bridx - bcnt < 0)
             THEN [r EXCEPT !.array = shr_bits(arr, 1), !.stop = TRUE]
             ELSE Bind(IF down
                       THEN fill_down(c.p, c.sc,
                                [r EXCEPT !.array = arr, !.i = @ + 1],
                                next_b(c, pblk, r))
                       ELSE fill_right(c.p, c.sc,
                                [r EXCEPT !.array = arr, !.i = @ + 1],
                                next_a(c, pblk, r)),
                       LAMBDA r1 :
                           IF c.cur = <<>> THEN r1
                           ELSE [r1 EXCEPT
                                    !.mm = Append(@, eq_n(r1.max, r1.delta))])

\* n turns of the loop
RECURSIVE fill_steps(_, _, _, _, _)
fill_steps(c, pblk, r, cap, n) ==
    IF n = 1 THEN fill_step(c, pblk, r, cap)
    ELSE Bind(fill_steps(c, pblk, r, cap, n \div 2),
              LAMBDA h : IF h.i >= 0
                         THEN fill_steps(c, pblk, h, cap, n - (n \div 2))
                         ELSE h)

\* _fill_update_offset, _fill_store_vectors and fill_update_section
fill_store_vectors(p, pblk, r) ==
    LET cd == lane(r.delta, Half)
        de == IF p.model = LINEAR THEN <<>> ELSE sub_n(r.de, r.dv)
        df == IF p.model = LINEAR THEN <<>> ELSE add_n(r.df, r.dh)
    IN  [mask |-> r.mask,
         dh |-> IF p.model = LINEAR THEN r.dh
                ELSE add_n(shl3_n(sub_n(set_n(0), r.dh)), de),
         dv |-> IF p.model = LINEAR THEN r.dv
                ELSE add_n(shl3_n(r.dv), df),
         delta |-> sub_n(r.delta, set_n(cd)),
         max |-> sub_n(r.max, set_n(cd)),
         acc |-> r.acc, array |-> r.array,
         offset |-> r.offset + cd,
         aridx |-> pblk.aridx - r.acnt, bridx |-> pblk.bridx - r.bcnt,
         cha |-> r.a, chb |-> r.b]

\* fill_bulk_block: BLK turns without the bound test
fill_bulk_block(c, pblk) ==
    fill_store_vectors(c.p, pblk,
        fill_steps(c, pblk, fill_load_context(c.p, pblk), FALSE, BLK))

\* a variant whose test never fires
fill_test_xdrop_never(p, blk) == 0

\* a variant that takes the largest lane of the max vector, each lane with
\* its middle delta, in place of the centre lane
fill_test_xdrop_global(p, blk) ==
    p.xdrop - hmax_w([k \in 1 .. BW |->
                         gaba_init_fill_middle_delta(p)[k] + blk.max[k]])

\* fill_test_xdrop: negative when the centre lane fell more than tx
fill_test_xdrop(p, blk) == p.xdrop - lane(blk.max, Half)

\* fill_bulk_test_seq_bound: negative when a section has less than BW left
fill_bulk_test_seq_bound(blk) ==
    IF blk.aridx - BW < 0 \/ blk.bridx - BW < 0 THEN -1 ELSE 0

\* j: [blks, last, p, stat], the blocks filled so far and the last block
RECURSIVE fill_bulk_seq_bounded(_, _)
fill_bulk_seq_bounded(c, j) ==
    IF fill_test_xdrop(c.p, j.last) < 0
    THEN [j EXCEPT !.stat = TERM]
    ELSE IF fill_bulk_test_seq_bound(j.last) < 0
    THEN [j EXCEPT !.stat = CONT]
    ELSE Bind(fill_bulk_block(c, j.last),
              LAMBDA blk : fill_bulk_seq_bounded(c,
                               [j EXCEPT !.blks = Append(@, blk),
                                         !.last = blk, !.p = @ + BLK]))

\* fill_cap_seq_bounded: blocks with the per-step bound test; a block with
\* no step filled is dropped (blk += (i != 0))
RECURSIVE fill_cap_seq_bounded(_, _)
fill_cap_seq_bounded(c, j) ==
    IF fill_test_xdrop(c.p, j.last) < 0
    THEN [j EXCEPT !.stat = TERM]
    ELSE Bind(fill_steps(c, j.last, fill_load_context(c.p, j.last),
                         TRUE, BLK),
              LAMBDA r :
                  Bind(fill_store_vectors(c.p, j.last,
                           [r EXCEPT !.array = shl_bits(r.array, BLK - r.i)]),
                       LAMBDA blk :
                           IF r.i = 0 THEN [j EXCEPT !.stat = UPDATE]
                           ELSE IF r.i # BLK
                           THEN [j EXCEPT !.blks = Append(@, blk),
                                          !.last = blk, !.p = @ + r.i,
                                          !.stat = UPDATE]
                           ELSE fill_cap_seq_bounded(c,
                                    [j EXCEPT !.blks = Append(@, blk),
                                              !.last = blk, !.p = @ + BLK])))

\* ------------------------------------------------------------------------
\* phantom block, joint tail and the fill of a section pair
\* ------------------------------------------------------------------------
\* _last_block of a journal entry: the last filled block or the phantom block
last_block(seg) ==
    IF Len(seg.blks) = 0 THEN seg.ph ELSE seg.blks[Len(seg.blks)]

\* fill_init_fetch: fetch what is missing of the initial BW - 1 symbols
fill_init_fetch(c, prev_tail, pblk, aridx, bridx) ==
    LET prem == -prev_tail.psum
        arem == (prem + 1) \div 2
        brem == prem \div 2
        anrem0 == Max2(arem - aridx, 0)
        bnrem0 == Max2(brem - bridx, 0)
        anrem == Max2(anrem0, bnrem0)
        bnrem == Max2(bnrem0, anrem0 - 1)
        alen == arem - anrem
        blen == brem - bnrem
        a0 == c.asec.len - aridx
        b0 == c.bsec.len - bridx
        a == [k \in 1 .. BW |->
                IF k <= alen THEN section_sym(c.seqa, c.asec, a0 + alen - k)
                             ELSE pblk.cha[k - alen]] \o <<>>
        b == [k \in 1 .. BW |->
                IF k > BW - blen
                THEN section_sym(c.seqb, c.bsec, b0 + (k - (BW - blen)) - 1)
                ELSE pblk.chb[k + blen]] \o <<>>
    IN  [cha |-> a, chb |-> b,
         aridx |-> aridx - alen, bridx |-> bridx - blen,
         p |-> alen + blen,
         stat |-> IF aridx - alen = 0 \/ bridx - blen = 0 THEN UPDATE
                                                           ELSE CONT]

\* number of the 16 diagonals of the initial vector that carry a match on
\* one of the three centre anti-diagonals (fill_gapless_filter)
gapless_cnt(cha, chb) ==
    LET a0(k) == cha[16 - k]
        b0(k) == IF k >= 15 THEN 0 ELSE chb[16 + k + 2]
        a1(k) == IF k >= 15 THEN 0 ELSE a0(k + 1)
        b1(k) == IF k >= 15 THEN 0 ELSE b0(k + 1)
    IN  Cardinality({k \in 0 .. 15 :
            \/ and4(a0(k), b1(k)) # 0
            \/ and4(a0(k), b0(k)) # 0
            \/ and4(a1(k), b0(k)) # 0})

\* a variant that lets every initial vector pass
fill_gapless_filter_pass(p, cha, chb) == CONT

fill_gapless_filter(p, cha, chb) ==
    IF gapless_cnt(cha, chb) > p.tf THEN CONT ELSE TERM

\* fill_create_phantom_block: the head of a new journal entry, copied from
\* the last block of the previous one; result [ph, p, stat]
fill_create_phantom_block(c, prev_tail, pblk) ==
    LET aridx == c.asec.len - prev_tail.apos
        bridx == c.bsec.len - prev_tail.bpos
        base == [mask |-> <<>>, dh |-> pblk.dh, dv |-> pblk.dv,
                 delta |-> pblk.delta, max |-> pblk.max,
                 acc |-> pblk.acc, array |-> pblk.array,
                 offset |-> pblk.offset,
                 aridx |-> aridx, bridx |-> bridx,
                 cha |-> pblk.cha, chb |-> pblk.chb]
    IN  IF prev_tail.psum >= 0
        THEN [ph |-> base, p |-> 0, stat |-> CONT]
        ELSE Bind(fill_init_fetch(c, prev_tail, pblk, aridx, bridx),
                  LAMBDA f :
                      [ph |-> [base EXCEPT !.aridx = f.aridx,
                                           !.bridx = f.bridx,
                                           !.cha = f.cha, !.chb = f.chb],
                       p |-> f.p,
                       stat |-> IF prev_tail.psum + f.p >= 0
                                THEN fill_gapless_filter(c.p, f.cha, f.chb)
                                ELSE f.stat])

W16(x) == ((x + 32768) % 65536) - 32768

\* a variant whose p is the count of this fill even before the initial
\* vector is filled
fill_create_tail_fetched(c, prev, prev_tail, blk, p, stat) ==
    LET md == [k \in 1 .. BW |-> W16(c.md[k] + blk.max[k])] \o <<>>
    IN  [psum |-> p + prev_tail.psum,
         p |-> p,
         ssum |-> prev_tail.ssum + 1,
         max |-> hmax_w(md) + blk.offset,
         stat |-> stat + (IF blk.aridx = 0 THEN UPDATE_A ELSE 0)
                       + (IF blk.bridx = 0 THEN UPDATE_B ELSE 0),
         tail |-> prev,
         apos |-> IF blk.aridx = 0 THEN 0 ELSE c.asec.len - blk.aridx,
         bpos |-> IF blk.bridx = 0 THEN 0 ELSE c.bsec.len - blk.bridx,
         alen |-> c.asec.len, blen |-> c.bsec.len,
         aid |-> c.asec.id, bid |-> c.bsec.id]

\* fill_create_tail: the joint tail closing the blocks of a fill
fill_create_tail(c, prev, prev_tail, blk, p, stat) ==
    LET md == [k \in 1 .. BW |-> W16(c.md[k] + blk.max[k])] \o <<>>
    IN  [psum |-> p + prev_tail.psum,
         p |-> IF prev_tail.psum < 0 THEN Max2(p + prev_tail.psum, 0) ELSE p,
         ssum |-> prev_tail.ssum + 1,
         max |-> hmax_w(md) + blk.offset,
         stat |-> stat + (IF blk.aridx = 0 THEN UPDATE_A ELSE 0)
                       + (IF blk.bridx = 0 THEN UPDATE_B ELSE 0),
         tail |-> prev,
         apos |-> IF blk.aridx = 0 THEN 0 ELSE c.asec.len - blk.aridx,
         bpos |-> IF blk.bridx = 0 THEN 0 ELSE c.bsec.len - blk.bridx,
         alen |-> c.asec.len, blen |-> c.bsec.len,
         aid |-> c.asec.id, bid |-> c.bsec.id]

\* calc_min_expected_blocks_blk: the blocks filled without a bound test
calc_min_expected_blocks_blk(blk) ==
    Bind(Min2(blk.aridx, blk.bridx), LAMBDA p : (p + p \div 2) \div BLK)

\* fill_bulk_predetd_blocks: cnt blocks with the X-drop test alone
RECURSIVE fill_bulk_predetd_blocks(_, _, _)
fill_bulk_predetd_blocks(c, j, cnt) ==
    IF cnt = 0 THEN j
    ELSE IF fill_test_xdrop(c.p, j.last) < 0
    THEN [j EXCEPT !.stat = TERM]
    ELSE Bind(fill_bulk_block(c, j.last),
              LAMBDA blk : fill_bulk_predetd_blocks(c,
                               [j EXCEPT !.blks = Append(@, blk),
                                         !.last = blk, !.p = @ + BLK],
                               cnt - 1))

\* the loop of fill_seq_bounded over the predetermined parts
RECURSIVE fill_bulk_predetd_loop(_, _)
fill_bulk_predetd_loop(c, j) ==
    IF calc_min_expected_blocks_blk(j.last) > MIN_BULK_BLOCKS
    THEN Bind(fill_bulk_predetd_blocks(c, j,
                  calc_min_expected_blocks_blk(j.last)),
              LAMBDA j1 : IF j1.stat # CONT THEN j1
                          ELSE fill_bulk_predetd_loop(c, j1))
    ELSE j

\* fill_seq_bounded: phantom block, bulk blocks, cap blocks and the tail
fill_seq_bounded(c, prev, prev_seg) ==
    Bind(fill_create_phantom_block(c, prev_seg.tail, last_block(prev_seg)),
         LAMBDA h :
      Bind([blks |-> <<>>, last |-> h.ph, p |-> h.p, stat |-> h.stat],
         LAMBDA j00 :
      Bind(IF j00.stat # CONT THEN j00 ELSE fill_bulk_predetd_loop(c, j00),
         LAMBDA j0 :
      Bind(IF j0.stat # CONT THEN j0 ELSE fill_bulk_seq_bounded(c, j0),
         LAMBDA j1 :
      Bind(IF j1.stat # CONT THEN j1 ELSE fill_cap_seq_bounded(c, j1),
         LAMBDA j2 :
             [ph |-> h.ph, blks |-> j2.blks,
              tail |-> fill_create_tail(c, prev, prev_seg.tail, j2.last,
                                        j2.p, j2.stat),
              asec |-> c.asec, bsec |-> c.bsec])))))

\* fill_section_seq_bounded with ample stack memory: the reader context is
\* loaded from the two sections (fill_load_section) and the blocks are filled
fill_section_seq_bounded(in, prev, prev_seg, asec, bsec) ==
    fill_seq_bounded(
        [p |-> in.p, sc |-> gaba_init_create_score_vector(in.p),
         md |-> gaba_init_fill_middle_delta(in.p),
         seqa |-> in.seqa, seqb |-> in.seqb, asec |-> asec, bsec |-> bsec,
         cur |-> <<>>],
        prev, prev_seg)

\* gaba_init_fill_phantom: the root block and the root tail of a context
gaba_init_fill_phantom(p) ==
    [ph |-> [mask |-> <<>>,
             dh |-> gaba_init_create_diff_vectors(p).dh,
             dv |-> gaba_init_create_diff_vectors(p).dv,
             delta |-> gaba_init_create_small_delta(p).delta,
             max |-> gaba_init_create_small_delta(p).max,
             acc |-> gaba_init_create_dir_dynamic(p).acc,
             array |-> gaba_init_create_dir_dynamic(p).array,
             offset |-> 0, aridx |-> 0, bridx |-> 0,
             cha |-> gaba_init_create_char_vector.a,
             chb |-> gaba_init_create_char_vector.b],
     blks |-> <<>>,
     tail |-> [psum |-> PSUM_BASE - BW, p |-> 0, ssum |-> 0, max |-> 0,
               stat |-> CONT, tail |-> 0, apos |-> 0, bpos |-> 0,
               alen |-> 0, blen |-> 0, aid |-> 65532, bid |-> 65533],
     asec |-> [id |-> 65532, base |-> 0, len |-> 0, rev |-> FALSE],
     bsec |-> [id |-> 65533, base |-> 0, len |-> 0, rev |-> FALSE]]

\* ------------------------------------------------------------------------
\* leaf search: the cell of a journal entry that holds the maximum
\* ------------------------------------------------------------------------
\* block b of a journal entry; block 0 is its phantom block
block_at(seg, b) == IF b = 0 THEN seg.ph ELSE seg.blks[b]

\* lowest lane of a mask; 64 for the empty mask (tzcnt of zero)
tzcnt_mask(m) == IF m = {} THEN 64 ELSE CHOOSE i \in m : \A k \in m : i <= k

\* leaf_load_max_mask: lanes of the last block that hold the maximum
leaf_load_max_mask(p, seg) ==
    LET blk == last_block(seg)
        md == gaba_init_fill_middle_delta(p)
    IN  [max |-> blk.max, offset |-> blk.offset,
         mask_max |-> {i \in Lanes :
                          W16(seg.tail.max - blk.offset)
                              = W16(md[i + 1] + blk.max[i + 1])}]

\* leaf_detect_max_block: scan from block b + 1 back to the first block
\* whose predecessor does not hold the maximum; s is [max, offset, mask_max]
RECURSIVE leaf_detect_max_block(_, _, _)
leaf_detect_max_block(seg, s, b) ==
    IF b < 0 THEN [max |-> s.max, blk |-> 0, p |-> -1, mask_max |-> s.mask_max]
    ELSE LET pb == block_at(seg, b)
             max == add_n(s.max, set_n(W8(s.offset - pb.offset)))
             prev_mask_max == s.mask_max \cap eq_n(pb.max, max)
         IN  IF prev_mask_max = {}
             THEN [max |-> max, blk |-> b + 1, p |-> b * BLK,
                   mask_max |-> s.mask_max]
             ELSE leaf_detect_max_block(seg,
                      [max |-> pb.max, offset |-> pb.offset,
                       mask_max |-> prev_mask_max], b - 1)

\* leaf_refill_block: fill block blk again from its predecessor with the
\* compensated max vector; the result is the list of update masks
leaf_refill_block(p, seg, len, blk, compd_max) ==
    LET c == [p |-> p, sc |-> gaba_init_create_score_vector(p),
              cur |-> <<block_at(seg, blk)>>]
        pblk == block_at(seg, blk - 1)
        r == [fill_load_context(p, pblk) EXCEPT !.max = compd_max]
    IN  fill_steps(c, pblk, r, FALSE, len).mm

\* leaf_detect_max_pos: the first step whose update mask meets mask_max
leaf_detect_max_pos(mm, len, mask_max) ==
    LET hit == {i \in 0 .. (len - 1) : mm[i + 1] \cap mask_max # {}}
    IN  IF hit = {} THEN [p |-> 0, q |-> 0]
        ELSE LET i == CHOOSE i \in hit : \A k \in hit : i <= k
             IN  [p |-> i, q |-> tzcnt_mask(mm[i + 1] \cap mask_max)]

\* a variant that keeps the idx + 1 lowest bits of the array
dir_load_low(blk, idx) ==
    [k \in 1 .. 32 |-> IF k <= idx + 1 THEN blk.array[k] ELSE 0] \o <<>>

\* _dir_load: the direction bits of a block seen from step idx
dir_load(blk, idx) == shr_bits(blk.array, (BLK - 1) - idx)

\* leaf_save_coordinates
leaf_save_coordinates(seg, tail, blk, p, q) ==
    LET mask_idx == p % BLK
        bcnt == popcnt(dir_load(block_at(seg, blk), mask_idx))
        acnt == (mask_idx + 1) - bcnt
        pb == block_at(seg, blk - 1)
    IN  [tail |-> tail, blk |-> blk,
         aridx |-> pb.aridx + q - acnt,
         bridx |-> pb.bridx + ((BW - 1) - q) - bcnt,
         p |-> p, q |-> q]

\* leaf_save_phantom_coordinates
leaf_save_phantom_coordinates(tail, blk, mask_max) ==
    [tail |-> tail, blk |-> blk, aridx |-> 0, bridx |-> 0,
     p |-> -1, q |-> tzcnt_mask(mask_max)]

\* leaf_search on journal entry seg, whose index in the journal is tail
leaf_search(p, seg, tail) ==
    Bind(leaf_detect_max_block(seg, leaf_load_max_mask(p, seg),
             IF seg.tail.p - 1 < 0 THEN -1 ELSE (seg.tail.p - 1) \div BLK),
         LAMBDA b :
             IF b.p = -1
             THEN leaf_save_phantom_coordinates(tail, b.blk, b.mask_max)
             ELSE Bind(leaf_detect_max_pos(
                           leaf_refill_block(p, seg,
                               Min2(seg.tail.p - b.p, BLK), b.blk, b.max),
                           Min2(seg.tail.p - b.p, BLK), b.mask_max),
                       LAMBDA l : leaf_save_coordinates(seg, tail, b.blk,
                                                        b.p + l.p, l.q)))

\* ------------------------------------------------------------------------
\* traceback: path memory and the body of a trace
\* ------------------------------------------------------------------------
\* The path memory is a tuple of bits, word w holding bits 32w+1 .. 32w+32
\* with the least significant bit first.  A shift count is taken modulo 64,
\* as the shift instructions of the target do.
shl64(v, n) ==
    [k \in 1 .. 64 |-> IF k <= n % 64 THEN 0 ELSE v[k - (n % 64)]] \o <<>>
shr64(v, n) ==
    [k \in 1 .. 64 |-> IF k + (n % 64) > 64 THEN 0 ELSE v[k + (n % 64)]] \o <<>>
loadu_u64(mem, w) == SubSeq(mem, 32 * w + 1, 32 * w + 64)
storeu_u64(mem, w, v) ==
    [k \in 1 .. Len(mem) |->
        IF k > 32 * w /\ k <= 32 * w + 64 THEN v[k - 32 * w] ELSE mem[k]] \o <<>>

\* a block of a journal entry as the trace sees it; below the phantom block
\* lies memory that is no block, its content g is arbitrary
trace_block(J, g, seg, b) ==
    IF b >= 0 /\ b <= Len(J[seg].blks) THEN block_at(J[seg], b)
    ELSE [array |-> [k \in 1 .. 32 |-> IF g = {} THEN 0 ELSE 1] \o <<>>,
          aridx |-> 0, bridx |-> 0]

\* the mask pair the pointer ptr of block b refers to; a phantom block has
\* no mask array, the memory there is arbitrary as well
trace_mask(J, g, t) ==
    IF /\ t.b >= 1 /\ t.b <= Len(J[t.seg].blks)
       /\ t.ptr >= 0 /\ t.ptr < Len(J[t.seg].blks[t.b].mask)
    THEN J[t.seg].blks[t.b].mask[t.ptr + 1]
    ELSE [h |-> g, v |-> g, e |-> g, f |-> g]

\* _trace_reload_ptr
trace_reload_ptr(J, g, t, idx) ==
    [t EXCEPT !.b = @ - 1, !.ptr = idx,
              !.dir = dir_load(trace_block(J, g, t.seg, t.b - 1), idx)]

\* _trace_reload_tail: step to the journal entry the tail was filled from
trace_reload_tail(J, g, t) ==
    LET old == J[t.wtail].tail
        nt == old.tail
    IN  IF nt = 0 THEN [t EXCEPT !.err = "null", !.pc = "break"]
        ELSE LET tail == J[nt].tail
                 u == [t EXCEPT !.wpsum = @ - t.wp, !.wtail = nt,
                           !.seg = nt, !.b = Len(J[nt].blks) + 1,
                           !.wp = tail.p, !.p = tail.p - 1,
                           !.asum = IF tail.stat % 16 = UPDATE_A
                                    THEN @ - old.alen ELSE @,
                           !.bsum = IF (tail.stat \div 16) % 16 = 15
                                    THEN @ - old.blen ELSE @]
             IN  trace_reload_ptr(J, g, u, (tail.p - 1) % BLK)

\* _trace_forward_cap_update_path, _trace_reverse_cap_update_path
trace_cap_update_path(dirn, t) ==
    LET cnt == (t.p % BLK) - t.ptr
        n == t.ofs + cnt
        over == (n \div BLK) % 2 = 1
    IN  IF dirn = "fw"
        THEN [t EXCEPT !.mem = storeu_u64(@, t.path - 1, shl64(t.pa, 64 - n)),
                       !.path = IF over THEN @ - 1 ELSE @,
                       !.ofs = n % BLK, !.p = @ - cnt]
        ELSE [t EXCEPT !.mem = storeu_u64(@, t.path, shr64(t.pa, 64 - n)),
                       !.path = IF over THEN @ + 1 ELSE @,
                       !.ofs = n % BLK, !.p = @ - cnt]

\* _trace_forward_bulk_update_path, _trace_reverse_bulk_update_path
trace_bulk_update_path(dirn, t) ==
    IF dirn = "fw"
    THEN [t EXCEPT !.mem = storeu_u64(@, t.path - 1, shl64(t.pa, BLK - t.ofs)),
                   !.path = @ - 1, !.p = @ - BLK]
    ELSE [t EXCEPT !.mem = storeu_u64(@, t.path, shr64(t.pa, BLK - t.ofs)),
                   !.path = @ + 1, !.p = @ - BLK]

\* _trace_forward_calc_index, _trace_reverse_calc_index
trace_calc_index(J, g, t) ==
    LET blk == trace_block(J, g, t.seg, t.b)
    IN  [t EXCEPT !.aidx = t.asum - blk.aridx - t.q,
                  !.bidx = t.bsum - blk.bridx - ((BW - 1) - t.q)]

\* _trace_*_load_n after a move: when the masks of the block are used up,
\* store the path window and step to the block or the journal entry before;
\* nat is the label reached by falling through, lab the one jumped to
trace_load_n(dirn, J, g, t, nat, lab) ==
    IF t.ptr # -1 THEN [t EXCEPT !.pc = nat]
    ELSE IF t.ty = "head"
    THEN [trace_reload_ptr(J, g, trace_cap_update_path(dirn, t), BLK - 1)
            EXCEPT !.ty = "bulk", !.pc = lab]
    ELSE IF t.ty = "bulk"
    THEN Bind(trace_reload_ptr(J, g, trace_bulk_update_path(dirn, t),
                               BLK - 1),
              LAMBDA u :
                  IF u.p < BLK
                  THEN [trace_calc_index(J, g, u) EXCEPT !.ty = "tail",
                                                         !.pc = lab]
                  ELSE [u EXCEPT !.pc = nat])
    ELSE Bind(trace_cap_update_path(dirn, t),
              LAMBDA u :
                  IF u.p < 0
                  THEN IF u.wpsum < u.wp - u.p
                       THEN [u EXCEPT !.pc = "break"]
                       ELSE Bind(trace_reload_tail(J, g, u),
                                 LAMBDA w :
                                     IF w.err # "" THEN w
                                     ELSE [w EXCEPT !.ty = "loop",
                                                    !.pc = lab])
                  ELSE [trace_reload_ptr(J, g, u, BLK - 1) EXCEPT !.pc = nat])

\* _trace_*_update_index with _trace_*_update_path_q: one move backwards,
\* horizontal (lab "h", an a symbol, bit 0) or vertical ("v", b, bit 1)
trace_move(dirn, lab, t) ==
    LET down == t.dir[1]
        sh == IF dirn = "fw" THEN shl64(t.pa, 1) ELSE shr64(t.pa, 1)
        pa == IF lab = "h" THEN sh
              ELSE IF dirn = "fw" THEN <<1>> \o SubSeq(sh, 2, 64)
                                  ELSE SubSeq(sh, 1, 63) \o <<1>>
    IN  [t EXCEPT !.aidx = IF t.ty = "tail" /\ lab = "h" THEN @ - 1 ELSE @,
                  !.bidx = IF t.ty = "tail" /\ lab = "v" THEN @ - 1 ELSE @,
                  !.pa = pa, !.ptr = @ - 1,
                  !.q = IF lab = "h" THEN @ + down ELSE @ + down - 1,
                  !.dir = shr_bits(t.dir, 1)]

\* one label of trace_forward_body (dirn "fw") or trace_reverse_body ("rv");
\* t.pc is the label, t.ty the loop type (head, bulk, tail; loop stands for
\* the dispatch on p < 2 * BLK), P the scoring scheme
trace_label(dirn, P, J, g, t, m) ==
    LET qq == t.q % 32
        diag_h == qq \in m.h
        diag_v == qq \in m.v
        gap_h == IF P.model = LINEAR THEN qq \in m.h ELSE qq \in m.e
        gap_v == IF P.model = LINEAR THEN qq \in m.v ELSE qq \in m.f
        tl == t.ty = "tail"
        v_test_index == tl /\ (t.aidx = -1 \/ t.bidx = 0)
        d_test_index == tl /\ (t.aidx = 0 \/ t.bidx = 0)
        h_test_index == tl /\ (t.aidx = 0 \/ t.bidx = -1)
        fst == IF dirn = "fw" THEN "h" ELSE "v"
        snd == IF dirn = "fw" THEN "v" ELSE "h"
    IN  IF t.pc = "v_head"
        THEN IF ~gap_v THEN [t EXCEPT !.pc = "d_head"]
             ELSE IF v_test_index THEN [t EXCEPT !.pc = "break"]
             ELSE trace_load_n(dirn, J, g,
                      trace_move(dirn, "v", [t EXCEPT !.gec = @ + 1]),
                      "v_head", "v_head")
        ELSE IF t.pc = "h_head"
        THEN IF ~gap_h THEN [t EXCEPT !.pc = "d_head"]
             ELSE IF h_test_index THEN [t EXCEPT !.pc = "break"]
             ELSE trace_load_n(dirn, J, g,
                      trace_move(dirn, "h", [t EXCEPT !.gec = @ + 1]),
                      "h_head", "h_head")
        ELSE IF t.pc = "d_head"
        THEN IF (IF dirn = "fw" THEN diag_h ELSE diag_v)
             THEN [t EXCEPT !.gic = @ + 1,
                            !.pc = IF dirn = "fw" THEN "h_head" ELSE "v_head"]
             ELSE IF d_test_index
             THEN [trace_cap_update_path(dirn, t) EXCEPT !.pc = "break"]
             ELSE trace_load_n(dirn, J, g, trace_move(dirn, fst, t),
                               "d_mid", "d_mid")
        ELSE IF t.pc = "d_mid"
        THEN trace_load_n(dirn, J, g, trace_move(dirn, snd, t),
                          "d_tail", "d_tail")
        ELSE IF t.pc = "d_tail"
        THEN IF (IF dirn = "fw" THEN diag_v ELSE diag_h)
             THEN [t EXCEPT !.gic = @ + 1,
                            !.pc = IF dirn = "fw" THEN "v_head" ELSE "h_head"]
             ELSE [t EXCEPT !.pc = "d_head"]
        ELSE t

\* the dispatch on the loop type, then the label with the masks of its block
trace_step(dirn, P, J, g, t0) ==
    Bind(IF t0.ty = "loop"
         THEN [t0 EXCEPT !.ty = IF t0.p < 2 * BLK THEN "tail" ELSE "head"]
         ELSE t0,
         LAMBDA t : trace_label(dirn, P, J, g, t, trace_mask(J, g, t)))

\* the labels of a body taken until the index break, at most n of them
RECURSIVE trace_steps(_, _, _, _, _, _)
trace_steps(dirn, P, J, g, t, n) ==
    IF n = 1 THEN trace_step(dirn, P, J, g, t)
    ELSE Bind(trace_steps(dirn, P, J, g, t, n \div 2),
              LAMBDA h : IF h.pc = "break" THEN h
                         ELSE trace_steps(dirn, P, J, g, h, n - (n \div 2)))

MaxLabels == 2048

\* trace_forward_body, trace_reverse_body: _trace_*_load_context, the loops
\* and _trace_*_save_context; w is the work area of the trace
trace_body(dirn, P, J, g, w) ==
    LET path == IF dirn = "fw" THEN w.phead ELSE w.ptail
        ofs == IF dirn = "fw" THEN w.phofs ELSE w.ptofs
        pa == IF dirn = "fw"
              THEN shr64(loadu_u64(w.mem, path - 1), 64 - ofs)
              ELSE shl64(loadu_u64(w.mem, path), 64 - ofs)
        t0 == [pc |-> IF dirn = "fw" THEN "v_head" ELSE "h_head",
               ty |-> "loop", path |-> path, ofs |-> ofs, pa |-> pa,
               aidx |-> w.aidx, bidx |-> w.bidx, gic |-> 0, gec |-> 0,
               seg |-> w.wtail, b |-> w.b, ptr |-> w.p % BLK,
               dir |-> dir_load(trace_block(J, g, w.wtail, w.b), w.p % BLK),
               p |-> w.p, q |-> w.q, mem |-> w.mem,
               wtail |-> w.wtail, wpsum |-> w.psum, wp |-> w.p,
               asum |-> w.asum, bsum |-> w.bsum, err |-> ""]
    IN  Bind(trace_steps(dirn, P, J, g, t0, MaxLabels),
             LAMBDA t :
                 [w EXCEPT !.b = t.b, !.wtail = t.wtail,
                           !.aidx = t.aidx, !.bidx = t.bidx,
                           !.asum = t.asum, !.bsum = t.bsum,
                           !.psum = t.wpsum - (t.wp - t.p),
                           !.p = t.p, !.q = t.q,
                           !.gic = @ + t.gic, !.gec = @ + t.gec,
                           !.phead = IF dirn = "fw" THEN t.path ELSE @,
                           !.phofs = IF dirn = "fw" THEN t.ofs ELSE @,
                           !.ptail = IF dirn = "rv" THEN t.path ELSE @,
                           !.ptofs = IF dirn = "rv" THEN t.ofs ELSE @,
                           !.mem = t.mem,
                           !.err = IF t.err # "" THEN t.err
                                   ELSE IF t.pc # "break" THEN "loop" ELSE @])

\* ------------------------------------------------------------------------
\* traceback: sections of the path
\* ------------------------------------------------------------------------
\* the nearest earlier entry of the chain whose tail finished a section
\* (m = 1 for a, 16 for b); 0 when the walk leaves the chain at the root
RECURSIVE walk_update(_, _, _)
walk_update(J, k, m) ==
    LET n == J[k].tail.tail
    IN  IF n = 0 THEN 0
        ELSE IF (J[n].tail.stat \div m) % 16 # 0 THEN n
        ELSE walk_update(J, n, m)

\* the while loop of trace_load_section_a / _b; s is [tail, len, sum, idx]
RECURSIVE trace_load_section_loop(_, _, _)
trace_load_section_loop(J, side, s) ==
    IF s.idx > 0 \/ s.tail = 0 THEN s
    ELSE LET n == walk_update(J, s.tail, IF side = "a" THEN 1 ELSE 16)
         IN  IF n = 0 THEN [s EXCEPT !.tail = 0]
             ELSE LET len == IF side = "a" THEN J[n].tail.alen
                                           ELSE J[n].tail.blen
                  IN  trace_load_section_loop(J, side,
                          [tail |-> n, len |-> len, sum |-> s.sum + len,
                           idx |-> s.idx + len])

trace_load_section_a(J, w) ==
    Bind(trace_load_section_loop(J, "a",
             [tail |-> w.atail, len |-> J[w.atail].tail.alen,
              sum |-> J[w.atail].tail.alen,
              idx |-> w.aidx + J[w.atail].tail.alen]),
         LAMBDA s :
             IF s.tail = 0 THEN [w EXCEPT !.err = "null"]
             ELSE [w EXCEPT !.atail = s.tail, !.alen = s.len,
                            !.aid = J[s.tail].tail.aid, !.asum = s.sum,
                            !.aidx = s.idx, !.asidx = s.idx])

trace_load_section_b(J, w) ==
    Bind(trace_load_section_loop(J, "b",
             [tail |-> w.btail, len |-> J[w.btail].tail.blen,
              sum |-> J[w.btail].tail.blen,
              idx |-> w.bidx + J[w.btail].tail.blen]),
         LAMBDA s :
             IF s.tail = 0 THEN [w EXCEPT !.err = "null"]
             ELSE [w EXCEPT !.btail = s.tail, !.blen = s.len,
                            !.bid = J[s.tail].tail.bid, !.bsum = s.sum,
                            !.bidx = s.idx, !.bsidx = s.idx])

\* trailing zero count of a 64-bit window, 64 for zero
tzcnt_from(v, bit, k) ==
    IF \A i \in k .. 64 : v[i] # bit THEN 64
    ELSE (CHOOSE i \in k .. 64 :
              v[i] = bit /\ \A n \in k .. (i - 1) : v[n] # bit) - 1

\* trace_forward_push: the section goes in front of the section array
trace_forward_push(w) ==
    LET pa == shr64(loadu_u64(w.mem, w.phead), 32 - w.phofs)
        adja == IF w.aidx # 0 /\ w.bidx = 0 THEN tzcnt_from(pa, 1, 1) ELSE 0
        adjb == IF w.bidx # 0 /\ w.aidx = 0 THEN tzcnt_from(pa, 0, 1) - 1
                                            ELSE 0
    IN  Bind(<<Min2(w.aidx + adja, w.asidx), Min2(w.bidx + adjb, w.bsidx)>>,
             LAMBDA idx :
                 [w EXCEPT !.secs = <<[aid |-> w.aid, bid |-> w.bid,
                                       apos |-> idx[1], bpos |-> idx[2],
                                       alen |-> w.asidx - idx[1],
                                       blen |-> w.bsidx - idx[2],
                                       ppos |-> 0]>> \o @,
                           !.asidx = idx[1], !.bsidx = idx[2]])

\* id of the section on the other strand (the lowest bit flipped)
flip_id(id) == IF id % 2 = 0 THEN id + 1 ELSE id - 1

\* trace_reverse_push: the section goes behind the section array
trace_reverse_push(w) ==
    LET alen == w.asidx - w.aidx
        blen == w.bsidx - w.bidx
    IN  [w EXCEPT !.secs = Append(@, [aid |-> flip_id(w.aid),
                                      bid |-> flip_id(w.bid),
                                      apos |-> w.alen - w.asidx,
                                      bpos |-> w.blen - w.bsidx,
                                      alen |-> alen, blen |-> blen,
                                      ppos |-> w.pspos]),
                  !.asidx = w.aidx, !.bsidx = w.bidx,
                  !.pspos = @ + alen + blen]

\* trace_init_work: the work area for the trace from a leaf; path is the
\* path object [phead, phofs, ptail, ptofs] over the path memory mem
trace_init_work(J, leaf, path, mem) ==
    [wtail |-> leaf.tail, atail |-> leaf.tail, btail |-> leaf.tail,
     b |-> leaf.blk, alen |-> 0, blen |-> 0, aid |-> -1, bid |-> -1,
     aidx |-> -leaf.aridx, bidx |-> -leaf.bridx,
     asidx |-> -leaf.aridx, bsidx |-> -leaf.bridx,
     asum |-> 0, bsum |-> 0,
     p |-> leaf.p, q |-> leaf.q,
     psum |-> J[leaf.tail].tail.psum - J[leaf.tail].tail.p + leaf.p,
     pspos |-> 0,
     phead |-> path.phead, phofs |-> path.phofs,
     ptail |-> path.ptail, ptofs |-> path.ptofs,
     secs |-> <<>>, gic |-> 0, gec |-> 0, mem |-> mem, err |-> ""]

MaxBodies == 16

\* the loop of trace_forward_generate_alignment and
\* trace_reverse_generate_alignment; err "abort" is the return of -1
RECURSIVE trace_generate_loop(_, _, _, _, _, _)
trace_generate_loop(dirn, P, J, g, w, n) ==
    IF w.err # "" \/ w.psum < 0 THEN w
    ELSE IF n = 0 THEN [w EXCEPT !.err = "loop"]
    ELSE Bind(IF w.aidx <= 0 THEN trace_load_section_a(J, w) ELSE w,
              LAMBDA w1 :
         Bind(IF w1.err = "" /\ w1.bidx <= 0
              THEN trace_load_section_b(J, w1) ELSE w1,
              LAMBDA w2 :
         IF w2.err # "" THEN w2
         ELSE Bind(trace_body(dirn, P, J, g, w2),
                   LAMBDA w3 :
                       IF w3.err # "" THEN w3
                       ELSE IF w3.q < 0 \/ w3.q >= 32
                       THEN [w3 EXCEPT !.err = "abort"]
                       ELSE trace_generate_loop(dirn, P, J, g,
                                IF dirn = "fw" THEN trace_forward_push(w3)
                                               ELSE trace_reverse_push(w3),
                                n - 1))))

trace_forward_generate_alignment(P, J, g, leaf, path, mem) ==
    trace_generate_loop("fw", P, J, g, trace_init_work(J, leaf, path, mem),
                        MaxBodies)

trace_reverse_generate_alignment(P, J, g, leaf, path, mem) ==
    trace_generate_loop("rv", P, J, g, trace_init_work(J, leaf, path, mem),
                        MaxBodies)

\* ------------------------------------------------------------------------
\* traceback: the alignment object
\* ------------------------------------------------------------------------
roundup(x, base) == ((x + base - 1) \div base) * base

\* trace_init_alignment: the path memory of path_len + 4 words with the
\* reverse path growing upwards from word 2 and the forward path growing
\* downwards from word path_len + 2; malloc'ed words hold arbitrary bits gb
\* but for the four words the function clears
trace_init_alignment(P, fw_tail, rv_tail, k, gb) ==
    LET psum == roundup(Max2(fw_tail.psum, 1), 32)
                + roundup(Max2(rv_tail.psum, 1), 32)
        path_len == roundup(psum \div 32, 4) + 2
        clr == {1, 2, path_len + 2, path_len + 3}
    IN  [score |-> fw_tail.max + rv_tail.max + P.m * k,
         sec_len |-> 2 * (fw_tail.ssum + rv_tail.ssum),
         mem |-> [i \in 1 .. 32 * (path_len + 4) |->
                    IF ((i - 1) \div 32) \in clr THEN 0 ELSE gb] \o <<>>,
         rv |-> [phead |-> 2, phofs |-> 0, ptail |-> 2, ptofs |-> 0],
         fw |-> [phead |-> 2 + path_len, phofs |-> 0,
                 ptail |-> 2 + path_len, ptofs |-> 0]]

load_u32(mem, w) == SubSeq(mem, 32 * w + 1, 32 * w + 32)
store_u32(mem, w, v) ==
    [k \in 1 .. Len(mem) |->
        IF k > 32 * w /\ k <= 32 * w + 32 THEN v[k - 32 * w] ELSE mem[k]] \o <<>>
zext64(v) == [k \in 1 .. 64 |-> IF k <= 32 THEN v[k] ELSE 0] \o <<>>
or64(u, v) == [k \in 1 .. 64 |-> IF u[k] = 1 \/ v[k] = 1 THEN 1 ELSE 0] \o <<>>
low32(v) == SubSeq(v, 1, 32)

\* the copy loop of trace_cat_path; c is [mem, sh, dt, prev]
RECURSIVE trace_cat_path_loop(_, _, _)
trace_cat_path_loop(c, st, ofs) ==
    IF c.sh > st THEN c
    ELSE LET curr == zext64(load_u32(c.mem, c.sh))
         IN  trace_cat_path_loop(
                 [mem |-> store_u32(c.mem, c.dt,
                                    low32(or64(c.prev, shl64(curr, ofs)))),
                  sh |-> c.sh + 1, dt |-> c.dt + 1,
                  prev |-> IF ofs = 0 THEN zext64(ZeroBits)
                           ELSE shr64(curr, 32 - ofs)],
                 st, ofs)

\* trace_cat_path: append the bits of src to dst; head is the first word of
\* src, more tells that src has words behind it in the path memory
trace_cat_path(mem, dst, src, head, more) ==
    LET prev == [k \in 1 .. 64 |->
                    IF k <= dst.ptofs THEN mem[32 * dst.ptail + k] ELSE 0] \o <<>>
        n == dst.ptofs + src.phofs
        dt == IF (n \div 32) % 2 = 1 THEN dst.ptail + 1 ELSE dst.ptail
        ofs == n % 32
        n2 == ofs + src.ptofs
    IN  Bind(IF src.phofs = 0 THEN zext64(ZeroBits)
             ELSE shr64(zext64(head), 32 - src.phofs),
             LAMBDA curr :
        Bind(store_u32(store_u32(mem, dst.ptail,
                           low32(or64(prev, shl64(curr, dst.ptofs)))),
                       dst.ptail + 1,
                       IF dst.ptofs = 0 THEN ZeroBits
                       ELSE low32(shr64(curr, 32 - dst.ptofs))),
             LAMBDA m1 :
        Bind(IF more /\ src.phead + 1 <= src.ptail
             THEN Bind(trace_cat_path_loop(
                           [mem |-> m1, sh |-> src.phead + 1, dt |-> dt,
                            prev |-> zext64(load_u32(m1, dt))],
                           src.ptail, ofs),
                       LAMBDA l :
                           [mem |-> store_u32(l.mem, l.dt, low32(l.prev)),
                            dt |-> IF (n2 \div 32) % 2 = 1 THEN l.dt - 1
                                                            ELSE l.dt,
                            ofs |-> n2 % 32])
             ELSE [mem |-> m1, dt |-> dt, ofs |-> ofs],
             LAMBDA c :
                 [mem |-> store_u32(store_u32(c.mem, c.dt + 1, ZeroBits),
                                    c.dt + 2, ZeroBits),
                  path |-> [dst EXCEPT !.ptail = c.dt, !.ptofs = c.ofs]])))

plen(sec) == sec.alen + sec.blen

\* the copy loop of trace_cat_section
RECURSIVE trace_cat_section_loop(_, _, _)
trace_cat_section_loop(dst, src, ppos) ==
    IF src = <<>> THEN dst
    ELSE trace_cat_section_loop(Append(dst, [src[1] EXCEPT !.ppos = ppos]),
                                Tail(src), ppos + plen(src[1]))

\* trace_cat_section: dst[-1] of an empty dst is the zeroed section msec[0];
\* ptr counts from the head of dst
trace_cat_section(dst, src) ==
    LET zero == [aid |-> 0, bid |-> 0, apos |-> 0, bpos |-> 0,
                 alen |-> 0, blen |-> 0, ppos |-> 0]
        last == IF dst = <<>> THEN zero ELSE dst[Len(dst)]
        ppos == last.ppos + plen(last)
        merge == dst # <<>> /\ src # <<>> /\ src[1].apos # 0 /\ src[1].bpos # 0
    IN  IF merge
        THEN [ptr |-> Len(dst) - 1, ppos |-> plen(last),
              secs |-> trace_cat_section_loop(
                          [dst EXCEPT ![Len(dst)].alen = @ + src[1].alen,
                                      ![Len(dst)].blen = @ + src[1].blen],
                          Tail(src), ppos + plen(src[1]))]
        ELSE [ptr |-> IF src = <<>> THEN Len(dst) - 1 ELSE Len(dst),
              ppos |-> IF src = <<>> THEN plen(last) ELSE 0,
              secs |-> trace_cat_section_loop(dst, src, ppos)]

\* C division, which truncates towards zero (d > 0)
sdiv(a, d) == IF a >= 0 THEN a \div d ELSE -((-a) \div d)

\* trace_finalize_path: the path is the first len bits from the head word
trace_finalize_path(mem, path) ==
    LET len == 32 * (path.ptail - path.phead) + path.ptofs
    IN  [len |-> len,
         array |-> [k \in 1 .. len |-> mem[32 * path.phead + k]] \o <<>>]

\* trace_refine_alignment: the reverse path and sections, the seed (when
\* seed is not empty) and the forward path and sections are concatenated;
\* rv and fw are the work areas of the two traces
trace_refine_alignment(P, score, rv, fw, seed, k) ==
    LET rvp == [phead |-> rv.phead, phofs |-> rv.phofs,
                ptail |-> rv.ptail, ptofs |-> rv.ptofs]
        fwp == [phead |-> fw.phead, phofs |-> fw.phofs,
                ptail |-> fw.ptail, ptofs |-> fw.ptofs]
        ss == [phead |-> 0, phofs |-> 2 * k, ptail |-> 0, ptofs |-> 0]
        word5 == [i \in 1 .. 32 |-> i % 2] \o <<>>
        gic == fw.gic + rv.gic
        gec == fw.gec + rv.gec
        m == P.m
        x == -P.x
        gi == IF P.model = LINEAR THEN 0 ELSE -P.gi
        ge == IF P.model = LINEAR THEN -(P.gi + P.ge) ELSE -P.ge
        rlast == rv.secs[Len(rv.secs)]
    IN  Bind(IF seed = <<>> THEN [secs |-> rv.secs]
             ELSE trace_cat_section(rv.secs, seed),
             LAMBDA sb :
        Bind(IF seed = <<>> THEN [mem |-> rv.mem, path |-> rvp]
             ELSE trace_cat_path(rv.mem, rvp, ss, word5, FALSE),
             LAMBDA sp :
        Bind(trace_cat_section(sb.secs, fw.secs),
             LAMBDA fb :
        Bind(trace_cat_path(sp.mem, sp.path, fwp,
                            load_u32(sp.mem, fw.phead), TRUE),
             LAMBDA fp :
        Bind(trace_finalize_path(fp.mem, fp.path),
             LAMBDA path :
                 [ret |-> "aln", score |-> score,
                  rapos |-> IF seed # <<>> THEN seed[1].apos
                            ELSE IF fw.secs # <<>> THEN fw.secs[1].apos
                            ELSE IF rv.secs = <<>> THEN 0
                            ELSE rlast.apos + rlast.alen,
                  rbpos |-> IF seed # <<>> THEN seed[1].bpos
                            ELSE IF fw.secs # <<>> THEN fw.secs[1].bpos
                            ELSE IF rv.secs = <<>> THEN 0
                            ELSE rlast.bpos + rlast.blen,
                  rppos |-> IF seed = <<>> THEN fb.ppos ELSE sb.ppos,
                  rsidx |-> IF seed = <<>> THEN fb.ptr ELSE sb.ptr,
                  slen |-> Len(fb.secs), sec |-> fb.secs,
                  path |-> path,
                  xcnt |-> sdiv(m * ((path.len - gec) \div 2) + gi * gic
                                + ge * gec - score, m - x),
                  gicnt |-> gic, gecnt |-> gec])))))

\* gaba_dp_trace from the tails of journal entries fw and rv (0 for NULL);
\* g is the content of memory the trace reads without having written it
gaba_dp_trace_result(P, J, fw_tail, rv_tail, seed, k, g) ==
    LET ft == IF fw_tail = 0 THEN 1 ELSE fw_tail
        rt == IF rv_tail = 0 THEN 1 ELSE rv_tail
    IN  Bind(trace_init_alignment(P, J[ft].tail, J[rt].tail, k,
                                  IF g = {} THEN 0 ELSE 1),
             LAMBDA res :
        Bind(trace_forward_generate_alignment(P, J, g,
                 leaf_search(P, J[ft], ft), res.fw, res.mem),
             LAMBDA fw :
                 IF fw.err = "abort" THEN [ret |-> "null"]
                 ELSE IF fw.err # "" THEN [ret |-> "fault"]
                 ELSE Bind(trace_reverse_generate_alignment(P, J, g,
                               leaf_search(P, J[rt], rt), res.rv, fw.mem),
                           LAMBDA rv :
                               IF rv.err = "abort" THEN [ret |-> "null"]
                               ELSE IF rv.err # "" THEN [ret |-> "fault"]
                               ELSE trace_refine_alignment(P, res.score, rv,
                                        [fw EXCEPT !.mem = rv.mem],
                                        seed, k))))

\* ------------------------------------------------------------------------
\* inputs
\* ------------------------------------------------------------------------
A == 1
C == 2
G == 4
T == 8
TailLen == 20
MaxTails == 3

RECURSIVE rep(_, _)
rep(c, n) == IF n = 0 THEN <<>> ELSE <<c>> \o rep(c, n - 1)

\* scoring schemes: the two of the unit tests, one with a heavy mismatch and
\* one with a tight X-drop threshold
Lin ==
    [model |-> LINEAR, m |-> 2, x |-> 3, gi |-> 0, ge |-> 6,
     xdrop |-> 100, tf |-> 0]
Aff ==
    [model |-> AFFINE, m |-> 2, x |-> 3, gi |-> 5, ge |-> 1,
     xdrop |-> 100, tf |-> 0]
Heavy ==
    [model |-> LINEAR, m |-> 2, x |-> 7, gi |-> 0, ge |-> 6,
     xdrop |-> 100, tf |-> 0]
Tight ==
    [model |-> LINEAR, m |-> 2, x |-> 3, gi |-> 0, ge |-> 6,
     xdrop |-> 10, tf |-> 0]

\* a context over two sequences, each followed by a tail of G resp. C
MkIn(p, sa, sb) ==
    [p |-> p, seqa |-> sa \o rep(G, TailLen), seqb |-> sb \o rep(C, TailLen),
     alen |-> Len(sa), blen |-> Len(sb)]

\* the sequence pairs of the unit tests, a pair whose only match lies off
\* the diagonal, and pairs of empty sequences
Inputs ==
    { MkIn(Lin, <<A>>, <<A>>),
      MkIn(Aff, <<A>>, <<A>>),
      MkIn(Heavy, <<A>>, <<A>>),
      MkIn(Lin, <<A, C, G, T, A, C, G, T, A, C, G, T>>,
                <<A, C, G, T, A, C, G, T, A, C, G, T>>),
      MkIn(Aff, <<G, A, A, A, A, A, A, A, A>>, <<A, A, A, A, A, A, A, A>>),
      MkIn(Lin, <<G, A, C, G, T, A, C, G, T>>, <<A, C, G, T, A, C, G, T>>),
      MkIn(Aff, <<A, C, G, T, A, C, G, T>>, <<G, A, C, G, T, A, C, G, T>>),
      MkIn(Aff, <<G, A>>, <<A>>),
      MkIn(Lin, <<>>, <<>>),
      MkIn(Tight, <<>>, <<>>) }

\* the sections a caller builds over the two sequences
ASections(in) ==
    { [id |-> 0, base |-> 0, len |-> in.alen, rev |-> FALSE],
      [id |-> 2, base |-> in.alen, len |-> TailLen, rev |-> FALSE],
      [id |-> 1, base |-> 0, len |-> in.alen, rev |-> TRUE],
      [id |-> 3, base |-> in.alen, len |-> TailLen, rev |-> TRUE] }
BSections(in) ==
    { [id |-> 4, base |-> 0, len |-> in.blen, rev |-> FALSE],
      [id |-> 6, base |-> in.blen, len |-> TailLen, rev |-> FALSE],
      [id |-> 5, base |-> 0, len |-> in.blen, rev |-> TRUE],
      [id |-> 7, base |-> in.blen, len |-> TailLen, rev |-> TRUE] }

\* ------------------------------------------------------------------------
\* state
\* ------------------------------------------------------------------------
VARIABLES
    in,         \* scoring scheme and the two sequences of the context
    journal,    \* the root entry followed by one entry per fill
    ret,        \* what the last call returned; the caller makes one
                \* gaba_dp_fill_root, continues the tail returned last, and
                \* ends with a trace (or with the fault of a NULL tail)
    band,       \* the lane index of a trace in a build of either band width
    eng,        \* the last call of gaba_init and what it returned
    arena,      \* the stack memory of a DP context and its saved handle
    pair,       \* an engine context and two DP contexts made from it
    rsym,       \* a pair of sequences aligned forward and, reversed, backward
    cig         \* a path window and its two run lists

vars == <<in, journal, ret, band, eng, arena, pair, rsym, cig>>

\* what the calls on the alignment context leave alone, and what the other
\* specifications leave alone
others == <<band, eng, arena, pair, rsym, cig>>
not_band == <<in, journal, ret, eng, arena, pair, rsym, cig>>
not_eng == <<in, journal, ret, band, arena, pair, rsym, cig>>
not_arena == <<in, journal, ret, band, eng, pair, rsym, cig>>
not_pair == <<journal, ret, band, eng, arena, rsym, cig>>
not_sym == <<in, journal, ret, band, eng, arena, pair, cig>>
not_cig == <<in, journal, ret, band, eng, arena, pair, rsym>>

\* the value of a variable that takes no part in a specification
Idle == [pc |-> "idle"]

\* no alignment context takes part
NoContext ==
    /\ in = MkIn(Lin, <<>>, <<>>)
    /\ journal = <<>>
    /\ ret = [op |-> "none"]

Init ==
    /\ in \in Inputs
    /\ journal = <<gaba_init_fill_phantom(in.p)>>
    /\ ret = [op |-> "init", tail |-> 1]
    /\ band = Idle
    /\ eng = Idle
    /\ arena = Idle
    /\ pair = Idle
    /\ rsym = Idle
    /\ cig = Idle

has_mask(stat, m) == (stat \div m) % 2 = 1

\* a fill continues a section the previous tail left unfinished
Continues(prev, asec, bsec) ==
    /\ asec.rev = bsec.rev
    /\ prev # 1 =>
         /\ asec.rev = journal[prev].asec.rev
         /\ has_mask(journal[prev].tail.stat, 1) \/ asec = journal[prev].asec
         /\ has_mask(journal[prev].tail.stat, 16) \/ bsec = journal[prev].bsec

\* a fill_root that starts at the memory of the tail returned last instead
\* of at stack_top
gaba_dp_fill_root_rewind(asec, apos, bsec, bpos) ==
    /\ ret.op \in {"init", "fill_root", "fill", "trace"}
    /\ Len(journal) <= MaxTails
    /\ asec.rev = bsec.rev
    /\ LET root == [journal[1] EXCEPT !.tail.apos = apos, !.tail.bpos = bpos]
           seg == fill_section_seq_bounded(in, 1, root, asec, bsec)
       IN  /\ journal' = IF Len(journal) = 1 THEN <<root, seg>>
                         ELSE [journal EXCEPT ![1] = root, ![Len(journal)] = seg]
           /\ ret' = [op |-> "fill_root", tail |-> Len(journal')]
    /\ UNCHANGED <<in, others>>

\* gaba_dp_fill_root: the start positions go into the root tail
gaba_dp_fill_root(asec, apos, bsec, bpos) ==
    /\ ret.op \in {"init", "fill_root", "fill", "trace"}
    /\ Len(journal) <= MaxTails
    /\ asec.rev = bsec.rev
    /\ LET root == [journal[1] EXCEPT !.tail.apos = apos, !.tail.bpos = bpos]
           seg == fill_section_seq_bounded(in, 1, root, asec, bsec)
       IN  /\ journal' = Append([journal EXCEPT ![1] = root], seg)
           /\ ret' = [op |-> "fill_root", tail |-> Len(journal) + 1]
    /\ UNCHANGED <<in, others>>

\* gaba_dp_fill from a tail returned earlier
gaba_dp_fill(prev, asec, bsec) ==
    /\ ret.op \in {"fill_root", "fill", "trace"}
    /\ Len(journal) <= MaxTails
    /\ prev \in 2 .. Len(journal)
    /\ Continues(prev, asec, bsec)
    /\ LET seg == fill_section_seq_bounded(in, prev, journal[prev], asec, bsec)
       IN  /\ journal' = Append(journal, seg)
           /\ ret' = [op |-> "fill", tail |-> Len(journal) + 1]
    /\ UNCHANGED <<in, others>>

\* gaba_dp_fill with a NULL tail: calc_max_expected_blocks_tail reads
\* tail->apos through the null pointer, the call faults and returns nothing
gaba_dp_fill_null(asec, bsec) ==
    /\ ret.op \in {"init", "fill_root", "fill"}
    /\ asec.rev = bsec.rev
    /\ ret' = [op |-> "fill_null", tail |-> 0,
               asec |-> asec, bsec |-> bsec]
    /\ UNCHANGED <<in, journal, others>>

\* the seed section and seed length a caller hands to the trace
SeedLen == 12
SeedSec ==
    [aid |-> 100, bid |-> 102, apos |-> 0, bpos |-> 0,
     alen |-> SeedLen, blen |-> SeedLen, ppos |-> 0]

\* gaba_dp_trace from a forward and a reverse tail (0 for NULL), with or
\* without a seed; g is what memory never written holds
gaba_dp_trace(fw_tail, rv_tail, seeded, g) ==
    /\ ret.op \in {"init", "fill_root", "fill", "trace"}
    /\ ret' = [op |-> "trace", tail |-> 0, fw |-> fw_tail, rv |-> rv_tail,
               seeded |-> seeded,
               aln |-> gaba_dp_trace_result(in.p, journal, fw_tail, rv_tail,
                          IF seeded THEN <<SeedSec>> ELSE <<>>,
                          IF seeded THEN SeedLen ELSE 0, g)]
    /\ UNCHANGED <<in, journal, others>>

\* the caller of Spec makes one gaba_dp_fill_root, continues the tail
\* returned last and ends with a trace
Next ==
    \/ /\ ret.op = "init"
       /\ \E asec \in ASections(in), bsec \in BSections(in) :
              gaba_dp_fill_root(asec, 0, bsec, 0)
    \/ /\ ret.op # "trace"
       /\ \E prev \in {Len(journal)}, asec \in ASections(in),
             bsec \in BSections(in) :
              gaba_dp_fill(prev, asec, bsec)
    \/ \E asec \in ASections(in), bsec \in BSections(in) :
           gaba_dp_fill_null(asec, bsec)
    \/ /\ ret.op # "trace"
       /\ \E fw_tail \in {0, Len(journal)}, rv_tail \in {0, Len(journal)},
             seeded \in BOOLEAN, g \in {{}, Lanes} :
              gaba_dp_trace(fw_tail, rv_tail, seeded, g)

Spec == Init /\ [][Next]_vars

\* ------------------------------------------------------------------------
\* the reference of the cross test: full dynamic programming
\* ------------------------------------------------------------------------
\* The matrix is kept as the list of its anti-diagonals; diagonal d holds
\* the cells (i, d - i), cell i at index i + 1, each [s, e, f] (s alone in
\* the linear model).
naive_m(cin, i, j) ==
    IF cin.seqa[i] = cin.seqb[j] THEN cin.p.m ELSE -cin.p.x

naive_min(p) ==
    IF p.model = LINEAR THEN -32768 + p.x + 2 * (p.gi + p.ge)
    ELSE -32768 + p.x + 2 * p.gi

naive_at(ds, i, j) == ds[i + j + 1][i + 1]

\* one cell of unittest_naive; ds holds the diagonals before i + j
naive_cell(cin, ds, i, j) ==
    LET p == cin.p
        min == naive_min(p)
        g == -(p.gi + p.ge)
    IN  IF p.model = LINEAR
        THEN LET v == IF i = 0 /\ j = 0 THEN 0
                      ELSE IF j = 0 THEN Max2(min, i * g)
                      ELSE IF i = 0 THEN Max2(min, j * g)
                      ELSE Max2(Max2(min,
                                     naive_at(ds, i - 1, j - 1).s
                                         + naive_m(cin, i, j)),
                                Max2(naive_at(ds, i - 1, j).s + g,
                                     naive_at(ds, i, j - 1).s + g))
             IN  [s |-> v, e |-> v, f |-> v]
        ELSE IF i = 0 /\ j = 0 THEN [s |-> 0, e |-> 0, f |-> 0]
        ELSE IF j = 0
        THEN [s |-> Max2(min, -p.gi - i * p.ge),
              e |-> Max2(min, -p.gi - i * p.ge),
              f |-> Max2(min, -p.gi - i * p.ge - p.gi - 1)]
        ELSE IF i = 0
        THEN [s |-> Max2(min, -p.gi - j * p.ge),
              f |-> Max2(min, -p.gi - j * p.ge),
              e |-> Max2(min, -p.gi - j * p.ge - p.gi - 1)]
        ELSE LET score_e == Max2(naive_at(ds, i - 1, j).s - p.gi - p.ge,
                                 naive_at(ds, i - 1, j).e - p.ge)
                 score_f == Max2(naive_at(ds, i, j - 1).s - p.gi - p.ge,
                                 naive_at(ds, i, j - 1).f - p.ge)
             IN  [s |-> Max2(Max2(min,
                                  naive_at(ds, i - 1, j - 1).s
                                      + naive_m(cin, i, j)),
                             Max2(score_e, score_f)),
                  e |-> score_e, f |-> score_f]

\* the diagonals lo .. hi appended to ds
RECURSIVE naive_fill(_, _, _, _)
naive_fill(cin, ds, lo, hi) ==
    IF lo > hi THEN ds
    ELSE IF lo = hi
    THEN Append(ds, [k \in 1 .. (Len(cin.seqa) + 1) |->
                       IF k - 1 <= lo /\ lo - (k - 1) <= Len(cin.seqb)
                       THEN naive_cell(cin, ds, k - 1, lo - (k - 1))
                       ELSE [s |-> 0, e |-> 0, f |-> 0]] \o <<>>)
    ELSE LET mid == (lo + hi) \div 2
             half == naive_fill(cin, ds, lo, mid)
         IN  IF Len(half) > 0 THEN naive_fill(cin, half, mid + 1, hi)
             ELSE half

naive_mat(cin) == naive_fill(cin, <<>>, 0, Len(cin.seqa) + Len(cin.seqb))

\* the maximum kept by the scan: the largest score, the smallest i + j
\* among equals, then the first in scan order; (0, 0) when the score is 0
naive_max(cin, ds) ==
    LET cells == (1 .. Len(cin.seqa)) \X (1 .. Len(cin.seqb))
        sc(c) == naive_at(ds, c[1], c[2]).s
        before(c, d) ==
            \/ sc(c) > sc(d)
            \/ sc(c) = sc(d) /\ c[1] + c[2] < d[1] + d[2]
            \/ sc(c) = sc(d) /\ c[1] + c[2] = d[1] + d[2] /\ c[2] <= d[2]
        best == CHOOSE c \in cells : \A d \in cells : before(c, d)
    IN  IF sc(best) > 0
        THEN [score |-> sc(best), apos |-> best[1], bpos |-> best[2]]
        ELSE [score |-> 0, apos |-> 0, bpos |-> 0]

\* the cells of the forward traceback of unittest_naive from (i, j); a
\* diagonal move passes through the cell above
RECURSIVE naive_path(_, _, _, _)
RECURSIVE naive_gap_f(_, _, _, _)
RECURSIVE naive_gap_e(_, _, _, _)
naive_path(cin, ds, i, j) ==
    LET p == cin.p
        g == -(p.gi + p.ge)
        c == naive_at(ds, i, j)
    IN  IF i <= 0 /\ j <= 0 THEN {<<0, 0>>}
        ELSE IF p.model = LINEAR
        THEN IF j > 0 /\ c.s = naive_at(ds, i, j - 1).s + g
             THEN {<<i, j>>} \cup naive_path(cin, ds, i, j - 1)
             ELSE IF i > 0 /\ c.s = naive_at(ds, i - 1, j).s + g
             THEN {<<i, j>>} \cup naive_path(cin, ds, i - 1, j)
             ELSE {<<i, j>>, <<i - 1, j>>}
                      \cup naive_path(cin, ds, i - 1, j - 1)
        ELSE IF c.s = c.f THEN naive_gap_f(cin, ds, i, j)
        ELSE IF c.s = c.e THEN naive_gap_e(cin, ds, i, j)
        ELSE {<<i, j>>, <<i - 1, j>>} \cup naive_path(cin, ds, i - 1, j - 1)

naive_gap_f(cin, ds, i, j) ==
    IF j > 0 /\ naive_at(ds, i, j).f = naive_at(ds, i, j - 1).f - cin.p.ge
    THEN {<<i, j>>} \cup naive_gap_f(cin, ds, i, j - 1)
    ELSE {<<i, j>>} \cup naive_path(cin, ds, i, j - 1)

naive_gap_e(cin, ds, i, j) ==
    IF i > 0 /\ naive_at(ds, i, j).e = naive_at(ds, i - 1, j).e - cin.p.ge
    THEN {<<i, j>>} \cup naive_gap_e(cin, ds, i - 1, j)
    ELSE {<<i, j>>} \cup naive_path(cin, ds, i - 1, j)

\* unittest_naive: the score, the cell of the maximum and the path cells
unittest_naive(cin) ==
    LET ds == naive_mat(cin)
        max == naive_max(cin, ds)
    IN  [score |-> max.score, apos |-> max.apos, bpos |-> max.bpos,
         cells |-> naive_path(cin, ds, max.apos, max.bpos)]

\* ------------------------------------------------------------------------
\* the band of a chain of fills
\* ------------------------------------------------------------------------
\* the length of the sections finished before journal entry k
RECURSIVE consumed(_, _, _)
consumed(J, k, side) ==
    IF k <= 2 THEN 0
    ELSE consumed(J, k - 1, side)
         + (IF side = "a"
            THEN (IF has_mask(J[k - 1].tail.stat, 1)
                  THEN J[k - 1].asec.len ELSE 0)
            ELSE (IF has_mask(J[k - 1].tail.stat, 16)
                  THEN J[k - 1].bsec.len ELSE 0))

\* the cell lane q holds after step p of journal entry k, counted from the
\* start of the first sections
band_cell(J, k, p, q) ==
    LET l == leaf_save_coordinates(J[k], k, (p \div BLK) + 1, p, q)
    IN  <<consumed(J, k, "a") + J[k].asec.len - l.aridx,
          consumed(J, k, "b") + J[k].bsec.len - l.bridx>>

\* every cell a vector of the chain held, and the origin
band_cells(J) ==
    {<<0, 0>>} \cup
    UNION { { band_cell(J, k, p, q) : q \in Lanes, p \in 0 .. (J[k].tail.p - 1) }
            : k \in { n \in 2 .. Len(J) : J[n].blks # <<>> } }

\* ------------------------------------------------------------------------
\* properties
\* ------------------------------------------------------------------------
\* the chain of the cross test: gaba_dp_fill_root on the forward sections,
\* then two fills that move to the tail section of a side once it is done
CrossNext(k, side) ==
    IF side = "a"
    THEN (IF has_mask(journal[k - 1].tail.stat, 1)
          THEN [id |-> 2, base |-> in.alen, len |-> TailLen, rev |-> FALSE]
          ELSE journal[k - 1].asec)
    ELSE (IF has_mask(journal[k - 1].tail.stat, 16)
          THEN [id |-> 6, base |-> in.blen, len |-> TailLen, rev |-> FALSE]
          ELSE journal[k - 1].bsec)

CrossChain ==
    /\ ret.op = "fill" /\ ret.tail = 4
    /\ journal[2].asec.id = 0 /\ journal[2].bsec.id = 4
    /\ \A k \in 3 .. 4 :
         /\ journal[k].tail.tail = k - 1
         /\ journal[k].asec = CrossNext(k, "a")
         /\ journal[k].bsec = CrossNext(k, "b")

\* the largest maximum among the three tails of the chain
CrossMax ==
    Max2(journal[2].tail.max, Max2(journal[3].tail.max, journal[4].tail.max))

\* the path of the reference lies inside the band of the chain
InBand == unittest_naive(in).cells \subseteq band_cells(journal)

\* C1: when the optimal path of the full dynamic programming reference
\* stays inside the band, the largest tail maximum over gaba_dp_fill_root
\* and the fills that follow equals the maximum cell score of the reference
C1_CrossMaxIsReference ==
    (CrossChain /\ InBand) => CrossMax = unittest_naive(in).score

\* a cross-test chain over two sequences with a gap between them whose
\* reference path is in the band and whose maximum is positive
C1_Witness ==
    /\ CrossChain /\ InBand
    /\ in.alen # in.blen
    /\ unittest_naive(in).score > 0
    /\ CrossMax = unittest_naive(in).score

\* an alignment came back from the trace
Aln == ret.op = "trace" /\ ret.aln.ret = "aln"

\* the section of an id found in an alignment
SecA(id) ==
    IF id = SeedSec.aid
    THEN [id |-> id, base |-> 0, len |-> SeedLen, rev |-> FALSE]
    ELSE CHOOSE sec \in ASections(in) : sec.id = id
SecB(id) ==
    IF id = SeedSec.bid
    THEN [id |-> id, base |-> 0, len |-> SeedLen, rev |-> FALSE]
    ELSE CHOOSE sec \in BSections(in) : sec.id = id

\* symbol j of a section, 0 beyond its ends
sym(seq, sec, j) ==
    IF j < 0 \/ j >= sec.len THEN 0 ELSE section_sym(seq, sec, j)

\* one bit of the replay of a section: a 1 followed by a 0 is a diagonal
\* step, any other bit is a gap; st is [i, j, mc, xc, go, gx, last, skip]
replay_bit(arr, sa, sb, last_bit, st, k) ==
    IF st.skip THEN [st EXCEPT !.skip = FALSE]
    ELSE IF arr[k] = 1 /\ k < last_bit /\ arr[k + 1] = 0
    THEN LET hit == and4(sym(in.seqa, sa, st.i), sym(in.seqb, sb, st.j)) # 0
         IN  [st EXCEPT !.i = @ + 1, !.j = @ + 1,
                        !.mc = @ + (IF hit THEN 1 ELSE 0),
                        !.xc = @ + (IF hit THEN 0 ELSE 1),
                        !.last = "M", !.skip = TRUE]
    ELSE LET t == IF arr[k] = 1 THEN "D" ELSE "R"
         IN  [st EXCEPT !.i = @ + (IF t = "R" THEN 1 ELSE 0),
                        !.j = @ + (IF t = "D" THEN 1 ELSE 0),
                        !.go = @ + (IF st.last = t THEN 0 ELSE 1),
                        !.gx = @ + 1, !.last = t]

\* the bits lo .. hi of a section replayed in order
RECURSIVE replay_bits(_, _, _, _, _, _, _)
replay_bits(arr, sa, sb, last_bit, st, lo, hi) ==
    IF lo > hi THEN st
    ELSE IF lo = hi THEN replay_bit(arr, sa, sb, last_bit, st, lo)
    ELSE LET mid == (lo + hi) \div 2
             half == replay_bits(arr, sa, sb, last_bit, st, lo, mid)
         IN  IF half.gx >= 0
             THEN replay_bits(arr, sa, sb, last_bit, half, mid + 1, hi)
             ELSE half

\* the sections n .. of an alignment replayed against the two sequences; the
\* reverse and the forward half are two extensions from the root, a gap
\* that ends the one and a gap that starts the other are two gaps
RECURSIVE replay_secs(_, _, _)
replay_secs(aln, st, n) ==
    IF n > Len(aln.sec) THEN st
    ELSE LET sec == aln.sec[n]
             last_bit == Min2(sec.ppos + sec.alen + sec.blen, aln.path.len)
             st1 == replay_bits(aln.path.array, SecA(sec.aid), SecB(sec.bid),
                                last_bit,
                                [st EXCEPT !.i = sec.apos, !.j = sec.bpos,
                                           !.skip = FALSE,
                                           !.last = IF n = aln.rsidx + 1
                                                    THEN "M" ELSE @],
                                sec.ppos + 1, last_bit)
         IN  replay_secs(aln, st1, n + 1)

replay(aln) ==
    replay_secs(aln, [i |-> 0, j |-> 0, mc |-> 0, xc |-> 0, go |-> 0,
                      gx |-> 0, last |-> "M", skip |-> FALSE], 1)

\* the symbols under the seed section are equal, as those of a seed are
SeedExact ==
    \A j \in 0 .. (SeedLen - 1) :
        and4(sym(in.seqa, SecA(SeedSec.aid), j),
             sym(in.seqb, SecB(SeedSec.bid), j)) # 0

\* C2: the path of an alignment, decoded and replayed against the two
\* sequences, gives back the score as m * matches - x * mismatches
\* - gi * gap opens - ge * gap extends, and as many mismatches as xcnt says
C2_TraceRoundTrip ==
    (Aln /\ (ret.seeded => SeedExact)) =>
        LET r == replay(ret.aln)
        IN  /\ in.p.m * r.mc - in.p.x * r.xc - in.p.gi * r.go
                   - in.p.ge * r.gx = ret.aln.score
            /\ r.xc = ret.aln.xcnt

\* sum of alen (side "a") or blen of the sections n .. of an alignment
RECURSIVE sec_sum(_, _, _)
sec_sum(secs, side, n) ==
    IF n > Len(secs) THEN 0
    ELSE (IF side = "a" THEN secs[n].alen ELSE secs[n].blen)
         + sec_sum(secs, side, n + 1)

\* number of bits equal to b among the first len bits of a path
bit_count(path, b) ==
    Cardinality({k \in 1 .. path.len : path.array[k] = b})

TailOf(k) == journal[k].tail
PrevOf(k) == journal[journal[k].tail.tail].tail
Fills == 2 .. Len(journal)

\* C5: every tail a fill returned has p >= 0; its psum is at least p once
\* the initial vector is filled (psum >= 0), and p is 0 until then
C5_TailPsumP ==
    \A k \in Fills :
        /\ TailOf(k).ssum >= 1
        /\ TailOf(k).p >= 0
        /\ TailOf(k).psum >= 0 => TailOf(k).psum >= TailOf(k).p
        /\ TailOf(k).psum < 0 => TailOf(k).p = 0

\* a tail made while the initial vector is not yet filled, continued by one
\* that has filled blocks
C5_Witness ==
    /\ Len(journal) >= 3
    /\ TailOf(2).psum < 0 /\ TailOf(2).p = 0 /\ TailOf(2).ssum = 1
    /\ \E k \in Fills : TailOf(k).psum > TailOf(k).p /\ TailOf(k).p > 0

\* C5 as stated: psum >= p >= 0 for every tail a fill returned
C5_PsumAtLeastP ==
    \A k \in Fills :
        TailOf(k).ssum >= 1 => (TailOf(k).psum >= TailOf(k).p /\ TailOf(k).p >= 0)

\* C6: along every chain of tails the maximum never decreases
C6_MaxMonotone ==
    \A k \in Fills : TailOf(k).max >= PrevOf(k).max

\* C7: a fill with a NULL tail returns the tail gaba_dp_fill_root with zero
\* start positions returns for the same sections
C7_NullTailFillsFromRoot ==
    ret.op = "fill_null" =>
        /\ ret.tail = Len(journal)
        /\ journal[ret.tail] =
               fill_section_seq_bounded(in, 1, gaba_init_fill_phantom(in.p),
                                        ret.asec, ret.bsec)

\* the sections of entry k were consumed to their ends
AConsumed(k) == last_block(journal[k]).aridx = 0
BConsumed(k) == last_block(journal[k]).bridx = 0

\* fill k filled its initial vector and the gapless filter found no match
VetoFired(k) ==
    /\ PrevOf(k).psum < 0 /\ TailOf(k).psum >= 0
    /\ gapless_cnt(journal[k].ph.cha, journal[k].ph.chb) <= in.p.tf

\* fill k came to test a block, the phantom block or a block of BLK
\* vectors, whose centre lane had fallen more than xdrop below the maximum
XdropFired(k) ==
    /\ PrevOf(k).psum >= 0 \/ (TailOf(k).psum >= 0 /\ ~VetoFired(k))
    /\ TailOf(k).p % BLK = 0
    /\ lane(last_block(journal[k]).max, Half) > in.p.xdrop

EmptyFill(k) == journal[k].asec.len = 0 /\ journal[k].bsec.len = 0

\* C9 as stated: a fill of two empty sections returns CONT or UPDATE and a
\* tail that has the psum, p and max of the previous one and its ssum + 1
C9_EmptyFillKeepsTail ==
    \A k \in Fills :
        EmptyFill(k) =>
            /\ ~has_mask(TailOf(k).stat, TERM)
            /\ TailOf(k).psum = PrevOf(k).psum
            /\ TailOf(k).p = PrevOf(k).p
            /\ TailOf(k).max = PrevOf(k).max
            /\ TailOf(k).ssum = PrevOf(k).ssum + 1

\* C9: a fill of two empty sections returns a tail that has the psum and
\* max of the previous one, its ssum + 1 and p = 0; its status has UPDATE_A
\* and UPDATE_B, with TERM when the X-drop test fired and UPDATE otherwise
C9_EmptyFillKeepsScore ==
    \A k \in Fills :
        EmptyFill(k) =>
            /\ TailOf(k).psum = PrevOf(k).psum
            /\ TailOf(k).p = 0
            /\ TailOf(k).max = PrevOf(k).max
            /\ TailOf(k).ssum = PrevOf(k).ssum + 1
            /\ TailOf(k).stat = UPDATE_A + UPDATE_B
                   + (IF XdropFired(k) THEN TERM ELSE UPDATE)

\* an empty fill that follows a tail with filled blocks, and one the X-drop
\* test ended
C9_Witness ==
    \E k \in Fills :
        /\ EmptyFill(k) /\ PrevOf(k).p > 0
        /\ TailOf(k).psum = PrevOf(k).psum /\ TailOf(k).p = 0
        /\ TailOf(k).stat = UPDATE_A + UPDATE_B + TERM

\* C10: the trace of tails with maximum 0 returns an alignment with score
\* 0, path length 0 and no section, forward only or forward and reverse
C10_ZeroMaxEmptyAlignment ==
    (ret.op = "trace" /\ ~ret.seeded /\ ret.fw > 0
       /\ journal[ret.fw].tail.max = 0
       /\ (ret.rv > 0 => journal[ret.rv].tail.max = 0)) =>
        /\ ret.aln.ret = "aln"
        /\ ret.aln.score = 0 /\ ret.aln.path.len = 0 /\ ret.aln.slen = 0

\* ------------------------------------------------------------------------
\* the lane index of a trace and its sanity test, for both band widths
\* ------------------------------------------------------------------------
\* The body of a trace moves the lane index q by the direction bit of each
\* step; after every body the generate loop tests q.  The masks and the
\* direction bits are the inputs here; band.bw is the BW of the build,
\* band.lmm tells that the caller handed an allocator in the trace params,
\* band.live that the alignment object taken from it is still allocated,
\* band.left that q was outside [0, bw) at some step.
MaxMoves == 3

InBandQ(bw, q) == q >= 0 /\ q < bw

\* the lane a leaf search reports: the lowest or the highest of the band
leaf_lane(bw, top) == IF top THEN bw - 1 ELSE 0

\* gaba_dp_trace up to trace_init_work of the forward trace: the alignment
\* object is taken from lmm when the caller gave one, q is the lane of the
\* leaf
band_trace_init(bw, lmm, top) ==
    /\ band.pc = "idle"
    /\ band' = [pc |-> "body", bw |-> bw, lmm |-> lmm, live |-> lmm,
                dirn |-> "fw", q |-> leaf_lane(bw, top), n |-> 0,
                left |-> FALSE,
                ret |-> "none"]
    /\ UNCHANGED not_band

\* _trace_*_h_update_path_q, _trace_*_v_update_path_q
update_path_q(lab, q, down) == IF lab = "h" THEN q + down ELSE q + down - 1

\* one move of a body
band_move(lab, down) ==
    /\ band.pc = "body"
    /\ band.n < MaxMoves
    /\ band' = [band EXCEPT
                   !.q = update_path_q(lab, @, down), !.n = @ + 1,
                   !.left = @ \/ ~InBandQ(band.bw,
                                          update_path_q(lab, band.q, down))]
    /\ UNCHANGED not_band

\* the sanity test of the generate loop: (uint32_t)q >= 32
trace_q_abort(q) == q < 0 \/ q >= 32

\* the end of a body: on abort gaba_dp_trace frees the object of the
\* caller's allocator and returns NULL; otherwise the loop goes on while
\* psum >= 0 (more), then the reverse trace starts from the lane of its
\* leaf, then the alignment is returned
band_body_end(more, top) ==
    /\ band.pc = "body"
    /\ band' =
         IF trace_q_abort(band.q)
         THEN [band EXCEPT !.pc = "ret", !.ret = "null", !.live = FALSE]
         ELSE IF more THEN band
         ELSE IF band.dirn = "fw"
         THEN [band EXCEPT !.dirn = "rv", !.q = leaf_lane(band.bw, top)]
         ELSE [band EXCEPT !.pc = "ret", !.ret = "aln"]
    /\ UNCHANGED not_band

InitBand ==
    /\ NoContext
    /\ band = Idle
    /\ eng = Idle
    /\ arena = Idle
    /\ pair = Idle
    /\ rsym = Idle
    /\ cig = Idle

NextBand ==
    \/ \E bw \in {16, 32}, lmm \in BOOLEAN, top \in BOOLEAN :
           band_trace_init(bw, lmm, top)
    \/ \E lab \in {"h", "v"}, down \in {0, 1} : band_move(lab, down)
    \/ \E more \in BOOLEAN, top \in BOOLEAN : band_body_end(more, top)

SpecBand == InitBand /\ [][NextBand]_vars

\* C11: for both band widths, a trace whose lane index left [0, BW) returns
\* null, and the object taken from the caller's allocator is released
C11_BandExitReturnsNull ==
    (band.pc = "ret" /\ band.left) => (band.ret = "null" /\ ~band.live)

\* ------------------------------------------------------------------------
\* gaba_init and the test of the scoring parameters
\* ------------------------------------------------------------------------
\* gaba_init_restore_default_params: a scheme that is all zero is (1,1,1,1)
gaba_init_restore_default_params(params) ==
    IF params.m = 0 /\ params.x = 0 /\ params.gi = 0 /\ params.ge = 0
    THEN [params EXCEPT !.m = 1, !.x = 1, !.gi = 1, !.ge = 1]
    ELSE params

\* a variant that tests the penalties with the sign they have in the params
gaba_init_check_score_unsigned(model, params) ==
    IF model = LINEAR
    THEN IF params.m - 2 * (params.ge + params.gi) > 255 THEN -1
         ELSE IF params.ge + params.gi < 0 THEN -1 ELSE 0
    ELSE IF params.m - 2 * (params.ge + params.gi) > 31 THEN -1
         ELSE IF params.ge > params.gi THEN -1
         ELSE IF params.ge + params.gi < -7 THEN -1 ELSE 0

\* gaba_init_check_score: non-zero when the scores are not applicable; the
\* locals are int8_t, ge and gi the negated penalties
gaba_init_check_score(model, params) ==
    LET m == W8(params.m)
        ge == W8(-params.ge)
        gi == W8(-params.gi)
    IN  IF model = LINEAR
        THEN IF m - 2 * (ge + gi) > 255 THEN -1
             ELSE IF ge + gi > 0 THEN -1 ELSE 0
        ELSE IF m - 2 * (ge + gi) > 31 THEN -1
             ELSE IF ge < gi THEN -1
             ELSE IF ge + gi < -7 THEN -1 ELSE 0

\* gaba_init of a build for model; given is FALSE for a NULL params pointer,
\* alloc tells whether gaba_aligned_malloc returns memory
gaba_init(model, given, params, alloc) ==
    /\ eng.pc = "idle"
    /\ eng' = [pc |-> "ret", model |-> model, given |-> given,
               params |-> params, alloc |-> alloc,
               ret |-> IF ~given THEN "null"
                       ELSE IF gaba_init_check_score(model,
                                   gaba_init_restore_default_params(params)) # 0
                       THEN "null"
                       ELSE IF ~alloc THEN "null"
                       ELSE "ctx"]
    /\ UNCHANGED not_eng

\* gaba_clean: the context is freed, the next gaba_init may follow
gaba_clean ==
    /\ eng.pc = "ret"
    /\ eng' = Idle
    /\ UNCHANGED not_eng

\* the parameter sets handed to gaba_init
Params ==
    [m : {0, 1, 2, 20}, x : {0, 3}, gi : {-1, 0, 1, 5, 10, 64},
     ge : {0, 1, 6, 64}]

InitEng ==
    /\ NoContext
    /\ band = Idle
    /\ eng = Idle
    /\ arena = Idle
    /\ pair = Idle
    /\ rsym = Idle
    /\ cig = Idle

NextEng ==
    \/ \E model \in {LINEAR, AFFINE}, given \in BOOLEAN, params \in Params,
          alloc \in BOOLEAN : gaba_init(model, given, params, alloc)
    \/ gaba_clean

SpecEng == InitEng /\ [][NextEng]_vars

\* the call returned from a params pointer with memory at hand
EngRet == eng.pc = "ret" /\ eng.given /\ eng.alloc

\* the parameters after the default substitution
EngParams == gaba_init_restore_default_params(eng.params)

\* C12 as stated: null exactly when the parameters break m - 2(gi+ge) <= 255
\* and gi+ge >= 0 (linear) or m - 2(gi+ge) <= 31, ge <= gi and gi+ge >= -7
\* (affine), gi and ge being the penalties of the params
C12_NullIffConstraint ==
    EngRet =>
        (eng.ret = "null" <=>
            ~ IF eng.model = LINEAR
              THEN /\ EngParams.m - 2 * (EngParams.gi + EngParams.ge) <= 255
                   /\ EngParams.gi + EngParams.ge >= 0
              ELSE /\ EngParams.m - 2 * (EngParams.gi + EngParams.ge) <= 31
                   /\ EngParams.ge <= EngParams.gi
                   /\ EngParams.gi + EngParams.ge >= -7)

\* C12 amended: null exactly when the parameters break m + 2(gi+ge) <= 255
\* and gi+ge >= 0 (linear) or m + 2(gi+ge) <= 31, ge <= gi and gi+ge <= 7
\* (affine); a NULL params pointer and a refused allocation give null too
C12_NullIffPenaltyConstraint ==
    eng.pc = "ret" =>
        (eng.ret = "null" <=>
            \/ ~eng.given
            \/ ~eng.alloc
            \/ ~ IF eng.model = LINEAR
                 THEN /\ EngParams.m + 2 * (EngParams.gi + EngParams.ge) <= 255
                      /\ EngParams.gi + EngParams.ge >= 0
                 ELSE /\ EngParams.m + 2 * (EngParams.gi + EngParams.ge) <= 31
                      /\ EngParams.ge <= EngParams.gi
                      /\ EngParams.gi + EngParams.ge <= 7)

\* an affine scheme the stated constraint admits and gaba_init refuses
C12_Witness ==
    /\ EngRet /\ eng.model = AFFINE /\ eng.ret = "null"
    /\ eng.params.m = 2 /\ eng.params.gi = 10 /\ eng.params.ge = 1

\* ------------------------------------------------------------------------
\* the stack memory of a DP context: a chain of regions, the first one
\* allocated with the context, each further one twice the size of the one
\* before it.  Sizes and offsets are in bytes; an offset counts from the
\* start of its region.
\* ------------------------------------------------------------------------
MEM_ALIGN_SIZE == 32
MEM_INIT_SIZE == 268435456
MEM_MARGIN_SIZE == 2048
sizeof_dp_context == 896
sizeof_mem_block == 32
sizeof_stack == 32
sizeof_block == 704
sizeof_phantom_block == 192
sizeof_joint_tail == 64

\* the host allocator gives at most MaxRegions regions to a context, and a
\* context serves at most MaxOps calls
MaxRegions == 2
MaxOps == 5

\* the entry of a call: the per-call marks are cleared
enter(a) ==
    [a EXCEPT !.ops = @ + 1, !.refused = FALSE, !.wild = FALSE, !.ptr = <<>>]

\* gaba_dp_add_stack ignores the size it is given: a region that follows is
\* taken as it is, a new one has twice the size of the current one.  The
\* refusal of the host is marked in the field refused (GABA_ERROR_OUT_OF_MEM).
gaba_dp_add_stack(a, ok) ==
    IF a.curr_mem = Len(a.mem) /\ (~ok \/ Len(a.mem) >= MaxRegions)
    THEN [a EXCEPT !.refused = TRUE]
    ELSE Bind(IF a.curr_mem = Len(a.mem)
              THEN Append(a.mem, 2 * a.mem[a.curr_mem]) ELSE a.mem,
              LAMBDA mem :
                  [a EXCEPT !.mem = mem,
                            !.curr_mem = @ + 1,
                            !.stack_top = sizeof_mem_block,
                            !.stack_end = mem[a.curr_mem + 1] - MEM_MARGIN_SIZE])

\* (uint64_t)(stack_end - stack_top) < size: a negative difference is a
\* huge unsigned number, never below a size
lt_free(a, size) ==
    a.stack_end - a.stack_top >= 0 /\ a.stack_end - a.stack_top < size

\* the bump of gaba_dp_malloc: the block handed out is ptr, <<region,
\* offset, size>>
dp_bump(a, size) ==
    [a EXCEPT !.stack_top = @ + size, !.ptr = <<a.curr_mem, a.stack_top, size>>]

\* gaba_dp_malloc: ptr stays <<>> for a NULL return
gaba_dp_malloc(a, size, ok) ==
    IF lt_free(a, roundup(size, MEM_ALIGN_SIZE))
    THEN Bind(gaba_dp_add_stack(a, ok),
              LAMBDA b : IF b.refused THEN b
                         ELSE dp_bump(b, roundup(size, MEM_ALIGN_SIZE)))
    ELSE dp_bump(a, roundup(size, MEM_ALIGN_SIZE))

\* the three fields a handle holds
stack_of(a) ==
    [mem |-> a.curr_mem, stack_top |-> a.stack_top, stack_end |-> a.stack_end]

\* gaba_dp_init: the first region holds the context itself
gaba_dp_init_context ==
    [pc |-> "live", ops |-> 0, ret |-> "ctx",
     refused |-> FALSE, wild |-> FALSE, ptr |-> <<>>,
     mem |-> <<MEM_INIT_SIZE>>, curr_mem |-> 1,
     stack_top |-> sizeof_dp_context,
     stack_end |-> MEM_INIT_SIZE - MEM_MARGIN_SIZE,
     stack |-> <<>>, at_save |-> <<>>,
     mode |-> "none", run1 |-> <<>>, run2 |-> <<>>]

gaba_dp_init(ok) ==
    /\ arena.pc \in {"idle", "null"}
    /\ arena' = IF ~ok THEN [pc |-> "null"] ELSE gaba_dp_init_context
    /\ UNCHANGED not_arena

\* gaba_dp_clean
gaba_dp_clean ==
    /\ arena.pc \in {"live", "crashed"}
    /\ arena' = Idle
    /\ UNCHANGED not_arena

\* gaba_dp_flush: back to the first region
gaba_dp_flush ==
    /\ arena.pc = "live" /\ arena.ops < MaxOps
    /\ arena' = [enter(arena) EXCEPT !.ret = "void",
                     !.curr_mem = 1,
                     !.stack_top = sizeof_dp_context,
                     !.stack_end = arena.mem[1] - MEM_MARGIN_SIZE,
                     !.stack = <<>>, !.mode = "none"]
    /\ UNCHANGED not_arena

\* gaba_dp_save_stack: the handle is filled without a test of the pointer
\* gaba_dp_malloc returned.  A store through NULL either ends the process
\* (ub = "crash") or goes by unnoticed (ub = "stored"), and then NULL is what
\* the caller gets.
save_stack_store(a, h, at, ub) ==
    IF a.refused
    THEN [a EXCEPT !.wild = TRUE, !.mode = "none",
                   !.pc = IF ub = "crash" THEN "crashed" ELSE @,
                   !.ret = IF ub = "crash" THEN "none" ELSE "null"]
    ELSE [a EXCEPT !.ret = "stack", !.stack = h, !.at_save = at,
                   !.mode = "run", !.run1 = <<>>, !.run2 = <<>>]

gaba_dp_save_stack(ok, ub) ==
    /\ arena.pc = "live" /\ arena.ops < MaxOps
    /\ arena' = save_stack_store(
                    gaba_dp_malloc(enter(arena), sizeof_stack, ok),
                    stack_of(arena), stack_of(arena), ub)
    /\ UNCHANGED not_arena

\* gaba_dp_flush_stack: a NULL handle is ignored.  The memory of the handle
\* is free again after the call, so the handle is gone.
gaba_dp_flush_stack ==
    /\ arena.pc = "live" /\ arena.ops < MaxOps
    /\ arena' = IF arena.stack = <<>>
                THEN [enter(arena) EXCEPT !.ret = "void"]
                ELSE [enter(arena) EXCEPT !.ret = "restored",
                          !.curr_mem = arena.stack.mem,
                          !.stack_top = arena.stack.stack_top,
                          !.stack_end = arena.stack.stack_end,
                          !.stack = <<>>,
                          !.mode = IF arena.mode = "run" THEN "replay"
                                   ELSE "none"]
    /\ UNCHANGED not_arena

\* the size of an alignment: the least one, or one about the free memory
\* of the current region, or one of two first regions
aln_size(a, pick) ==
    CASE pick = "least" -> 96
      [] pick = "fit" -> a.stack_end - a.stack_top
      [] pick = "over" -> a.stack_end - a.stack_top + 32
      [] pick = "edge" -> a.stack_end - a.stack_top - 58 * sizeof_block
      [] pick = "large" -> 2 * MEM_INIT_SIZE

\* trace_init_alignment: the alignment comes from gaba_dp_malloc or from
\* the allocator of the caller (lmm), head_margin is added to what either
\* returned and the fields are stored with no test of it
trace_alloc_store(a, ub) ==
    IF a.refused
    THEN [a EXCEPT !.wild = TRUE, !.mode = "none",
                   !.pc = IF ub = "crash" THEN "crashed" ELSE @,
                   !.ret = IF ub = "crash" THEN "none" ELSE "aln"]
    ELSE [a EXCEPT !.ret = "aln", !.mode = "none"]

arena_dp_trace(pick, lmm, ok, ub) ==
    /\ arena.pc = "live" /\ arena.ops < MaxOps
    /\ aln_size(arena, pick) > 0
    /\ arena.stack_top + aln_size(arena, pick) <= 4 * MEM_INIT_SIZE
    /\ arena' = trace_alloc_store(
                    IF lmm THEN [enter(arena) EXCEPT !.refused = ~ok]
                    ELSE gaba_dp_malloc(enter(arena), aln_size(arena, pick), ok),
                    ub)
    /\ UNCHANGED not_arena

\* the block counts of a fill
calc_max_bulk_blocks_mem(a) ==
    Max2((a.stack_end - a.stack_top) \div sizeof_block, 3) - 3
calc_max_expected_blocks_tail(p) == (2 * p + p \div 2) \div BLK
calc_min_expected_blocks_tail(p) == (p + p \div 2) \div BLK

\* mem_bulk_blocks < seq_bulk_blocks, the free memory being the unsigned
\* difference stack_end - stack_top
mem_bulk_short(a, p) ==
    /\ a.stack_end - a.stack_top >= 0
    /\ calc_max_bulk_blocks_mem(a) < calc_max_expected_blocks_tail(p)

\* the X-drop test ends a fill in block xat of it (never for xat = 0): of
\* cnt blocks after the done ones, those up to block xat are written
xdrop_in(done, cnt, xat) == xat > done /\ xat <= done + cnt
xdrop_cut(done, cnt, xat) == IF xdrop_in(done, cnt, xat) THEN xat - done ELSE cnt

\* a phantom block, cnt blocks and a tail are written at stack_top with no
\* look at stack_end.  t is the tail so far: rem is what is left of the
\* shorter section, the band following the diagonal (BLK / 2 of either
\* sequence to a block).
\* a variant whose tail keeps the section count of the tail before
fill_blocks_same_ssum(r, cnt, stat) ==
    [a |-> [r.a EXCEPT !.stack_top = @ + sizeof_phantom_block
                                       + cnt * sizeof_block + sizeof_joint_tail],
     t |-> [rem |-> Max2(r.t.rem - cnt * (BLK \div 2), 0),
            psum |-> r.t.psum + cnt * BLK, p |-> cnt * BLK,
            ssum |-> r.t.ssum, stat |-> stat, parts |-> r.t.parts],
     null |-> FALSE]

fill_blocks(r, cnt, stat) ==
    [a |-> [r.a EXCEPT !.stack_top = @ + sizeof_phantom_block
                                       + cnt * sizeof_block + sizeof_joint_tail],
     t |-> [rem |-> Max2(r.t.rem - cnt * (BLK \div 2), 0),
            psum |-> r.t.psum + cnt * BLK, p |-> cnt * BLK,
            ssum |-> r.t.ssum + 1, stat |-> stat, parts |-> r.t.parts],
     null |-> FALSE]

\* fill_mem_bounded of the loop of fill_section_seq_bounded; parts counts
\* the loops of the call that ended before this one
fill_mem_bounded(r, xat) ==
    Bind(Min2(calc_max_bulk_blocks_mem(r.a), calc_min_expected_blocks_tail(r.t.rem)),
         LAMBDA bulk_cnt :
             IF bulk_cnt > MIN_BULK_BLOCKS
             THEN Bind(fill_blocks(r, xdrop_cut(r.t.psum \div BLK, bulk_cnt, xat),
                                   IF xdrop_in(r.t.psum \div BLK, bulk_cnt, xat)
                                   THEN TERM ELSE CONT),
                       LAMBDA r1 :
                           IF r1.t.stat = CONT
                           THEN [r1 EXCEPT !.t.parts = @ + 1] ELSE r1)
             ELSE r)

\* fill_seq_bounded of it: the blocks up to the end of the shorter section
fill_seq_blocks(r, xat) ==
    Bind((2 * r.t.rem + BLK - 1) \div BLK,
         LAMBDA cnt :
             fill_blocks(r, xdrop_cut(r.t.psum \div BLK, cnt, xat),
                         IF xdrop_in(r.t.psum \div BLK, cnt, xat)
                         THEN TERM ELSE UPDATE))

\* fill_section_seq_bounded as the arena sees it: r is the arena and the
\* tail so far
RECURSIVE fill_section_mem(_, _, _)
fill_section_mem(r, xat, ok) ==
    IF mem_bulk_short(r.a, r.t.rem)
    THEN Bind(fill_mem_bounded(r, xat),
              LAMBDA r1 :
                  IF r1.t.stat # CONT THEN r1
                  ELSE Bind(gaba_dp_add_stack(r1.a, ok),
                            LAMBDA a2 :
                                IF a2.refused
                                THEN [a |-> a2, t |-> r1.t, null |-> TRUE]
                                ELSE fill_section_mem(
                                         [a |-> a2, t |-> r1.t, null |-> FALSE],
                                         xat, ok)))
    ELSE fill_seq_blocks(r, xat)

\* what a caller sees of the tail a fill returned
tail_seen(r) ==
    IF r.null THEN <<>>
    ELSE [psum |-> r.t.psum, p |-> r.t.p, ssum |-> r.t.ssum, stat |-> r.t.stat,
          parts |-> r.t.parts]

\* the fills since the handle was saved (run1) and those repeated after the
\* handle was restored (run2)
fill_record(a, inp, seen) ==
    IF a.mode = "run"
    THEN [a EXCEPT !.run1 = Append(@, [inp |-> inp, tail |-> seen])]
    ELSE IF a.mode = "replay" /\ Len(a.run2) < Len(a.run1)
            /\ a.run1[Len(a.run2) + 1].inp = inp
    THEN [a EXCEPT !.run2 = Append(@, [inp |-> inp, tail |-> seen])]
    ELSE [a EXCEPT !.mode = "none"]

\* gaba_dp_fill_root or gaba_dp_fill on sections of which the shorter has
\* len bases left
arena_dp_fill(len, xat, ok) ==
    /\ arena.pc = "live" /\ arena.ops < MaxOps
    /\ arena' = Bind(fill_section_mem(
                         [a |-> enter(arena),
                          t |-> [rem |-> len, psum |-> 0, p |-> 0,
                                 ssum |-> 0, stat |-> CONT, parts |-> 0],
                          null |-> FALSE], xat, ok),
                     LAMBDA r :
                         fill_record([r.a EXCEPT !.ret = IF r.null THEN "null"
                                                          ELSE "tail"],
                                     <<len, xat>>, tail_seen(r)))
    /\ UNCHANGED not_arena

\* lengths left of the shorter section
FillLens == {0, 12, 704}

InitArena ==
    /\ NoContext
    /\ band = Idle
    /\ eng = Idle
    /\ arena = Idle
    /\ pair = Idle
    /\ rsym = Idle
    /\ cig = Idle

NextArena ==
    \/ \E ok \in BOOLEAN : gaba_dp_init(ok)
    \/ gaba_dp_clean
    \/ gaba_dp_flush
    \/ \E ok \in BOOLEAN, ub \in {"crash", "stored"} : gaba_dp_save_stack(ok, ub)
    \/ gaba_dp_flush_stack
    \/ \E len \in FillLens, xat \in {0, 20, 40}, ok \in BOOLEAN :
           arena_dp_fill(len, xat, ok)
    \/ \E pick \in {"least", "fit", "over", "edge", "large"}, lmm \in BOOLEAN,
          ok \in BOOLEAN, ub \in {"crash", "stored"} :
           arena_dp_trace(pick, lmm, ok, ub)

SpecArena == InitArena /\ [][NextArena]_vars

\* C13: an entry point in which the allocator refused memory returns null
\* and stores nothing through the pointer it did not get
C13_RefusalReturnsNull ==
    (arena.pc \in {"live", "crashed"} /\ arena.refused)
        => (arena.pc = "live" /\ arena.ret = "null" /\ ~arena.wild)

\* C14: in every state of a live context stack_top <= stack_end holds, and
\* the block gaba_dp_malloc handed out last lies inside its region
C14_ArenaTopWithinEnd ==
    arena.pc = "live"
        => /\ arena.stack_top <= arena.stack_end
           /\ arena.ptr # <<>>
                  => arena.ptr[2] + arena.ptr[3] <= arena.mem[arena.ptr[1]]

\* C15: gaba_dp_flush_stack sets (curr_mem, stack_top, stack_end) to what
\* they were when gaba_dp_save_stack was called, and the fills repeated after
\* it return tails with the psum, p, ssum and status of the first run (a
\* fill the host allocator refused is left out of the comparison)
C15_RestoreReplays ==
    arena.pc = "live"
        => /\ arena.ret = "restored" => stack_of(arena) = arena.at_save
           /\ arena.mode = "replay"
                  => \A i \in 1 .. Len(arena.run2) :
                         \/ arena.run1[i].tail = <<>>
                         \/ arena.run2[i].tail = <<>>
                         \/ arena.run2[i].tail = arena.run1[i].tail

\* ------------------------------------------------------------------------
\* a caller that goes on after a tail was returned: gaba_dp_fill_root at any
\* time, fills from any tail returned so far, traces in between
\* ------------------------------------------------------------------------
\* the tails of such a caller, who builds forward sections
MaxChain == 3
FwSections(secs) == {sec \in secs : ~sec.rev}

NextChain ==
    \/ \E asec \in FwSections(ASections(in)), bsec \in FwSections(BSections(in)),
          pos \in {0, 1} :
           /\ Len(journal) <= MaxChain
           /\ pos = 0 \/ (pos < asec.len /\ pos < bsec.len)
           /\ gaba_dp_fill_root(asec, pos, bsec, pos)
    \/ \E prev \in 2 .. Len(journal), asec \in FwSections(ASections(in)),
          bsec \in FwSections(BSections(in)) :
           /\ Len(journal) <= MaxChain
           /\ gaba_dp_fill(prev, asec, bsec)
    \/ \E fw_tail \in 2 .. Len(journal) :
           gaba_dp_trace(fw_tail, 0, FALSE, {})

\* the contexts with a sequence of nine bases and more
InitChain == Init /\ in.alen >= 9

SpecChain == InitChain /\ [][NextChain]_vars

\* the alignment a trace from tail k gives on the journal J
TraceOf(J, k) == gaba_dp_trace_result(in.p, J, k, 0, <<>>, 0, {})

MaxPair == 2

dp_init_copy(ctx) == [journal |-> <<ctx>>, ret |-> [op |-> "init", tail |-> 1]]

dp_fill_root(cin, d, asec, apos, bsec, bpos) ==
    Bind([d.journal[1] EXCEPT !.tail.apos = apos, !.tail.bpos = bpos],
         LAMBDA root :
             [journal |-> Append([d.journal EXCEPT ![1] = root],
                                 fill_section_seq_bounded(cin, 1, root, asec, bsec)),
              ret |-> [op |-> "fill_root", tail |-> Len(d.journal) + 1]])

dp_fill(cin, d, prev, asec, bsec) ==
    [journal |-> Append(d.journal,
                        fill_section_seq_bounded(cin, prev, d.journal[prev],
                                                 asec, bsec)),
     ret |-> [op |-> "fill", tail |-> Len(d.journal) + 1]]

dp_trace(cin, d, fw_tail, rv_tail) ==
    [journal |-> d.journal,
     ret |-> [op |-> "trace", tail |-> 0, fw |-> fw_tail, rv |-> rv_tail,
              aln |-> gaba_dp_trace_result(cin.p, d.journal, fw_tail, rv_tail,
                                           <<>>, 0, {})]]

\* the sections of a fill go on from those of the entry it starts at
continues_on(seg, asec, bsec) ==
    /\ asec.rev = seg.asec.rev
    /\ has_mask(seg.tail.stat, 1) \/ asec = seg.asec
    /\ has_mask(seg.tail.stat, 16) \/ bsec = seg.bsec

\* a gaba_dp_fill_root that keeps the start positions in the root tail of
\* the engine context, which every DP context then reads
pair_fill_root_shared(i, asec, apos, bsec, bpos) ==
    /\ pair.pc = "live"
    /\ Len(pair.dp[i].journal) <= MaxPair
    /\ asec.rev = bsec.rev
    /\ apos = 0 \/ (apos < asec.len /\ bpos < bsec.len)
    /\ pair' = [pair EXCEPT
           !.ctx = [@ EXCEPT !.tail.apos = apos, !.tail.bpos = bpos],
           !.dp = [k \in {1, 2} |->
                      IF k = i THEN dp_fill_root(in, pair.dp[i], asec, apos, bsec, bpos)
                      ELSE [pair.dp[k] EXCEPT !.journal[1].tail.apos = apos,
                                              !.journal[1].tail.bpos = bpos]],
           !.alone[i] = dp_fill_root(in, @, asec, apos, bsec, bpos)]
    /\ UNCHANGED <<in, not_pair>>

\* gaba_dp_fill_root on context i
pair_fill_root(i, asec, apos, bsec, bpos) ==
    /\ pair.pc = "live"
    /\ Len(pair.dp[i].journal) <= MaxPair
    /\ asec.rev = bsec.rev
    /\ apos = 0 \/ (apos < asec.len /\ bpos < bsec.len)
    /\ pair' = [pair EXCEPT
           !.dp[i] = dp_fill_root(in, @, asec, apos, bsec, bpos),
           !.alone[i] = dp_fill_root(in, @, asec, apos, bsec, bpos)]
    /\ UNCHANGED <<in, not_pair>>

\* gaba_dp_fill on context i, from the tail returned last
pair_fill(i, asec, bsec) ==
    /\ pair.pc = "live"
    /\ Len(pair.dp[i].journal) \in 2 .. MaxPair
    /\ asec.rev = bsec.rev
    /\ continues_on(pair.dp[i].journal[Len(pair.dp[i].journal)], asec, bsec)
    /\ pair' = [pair EXCEPT
           !.dp[i] = dp_fill(in, @, Len(pair.dp[i].journal), asec, bsec),
           !.alone[i] = dp_fill(in, @, Len(pair.alone[i].journal), asec, bsec)]
    /\ UNCHANGED <<in, not_pair>>

\* gaba_dp_trace on context i, from the tail returned last
pair_trace(i) ==
    /\ pair.pc = "live"
    /\ Len(pair.dp[i].journal) >= 2
    /\ pair.dp[i].ret.op # "trace"
    /\ pair' = [pair EXCEPT
           !.dp[i] = dp_trace(in, @, Len(pair.dp[i].journal), 0),
           !.alone[i] = dp_trace(in, @, Len(pair.alone[i].journal), 0)]
    /\ UNCHANGED <<in, not_pair>>

\* gaba_init and two gaba_dp_init; the caller of context 1 starts at
\* position 0 of its sections, the caller of context 2 at position 1
InitPair ==
    /\ in \in Inputs /\ in.alen >= 9
    /\ journal = <<>>
    /\ ret = [op |-> "none"]
    /\ band = Idle
    /\ eng = Idle
    /\ arena = Idle
    /\ rsym = Idle
    /\ cig = Idle
    /\ pair = [pc |-> "live", ctx |-> gaba_init_fill_phantom(in.p),
               dp |-> [k \in {1, 2} |-> dp_init_copy(gaba_init_fill_phantom(in.p))],
               alone |-> [k \in {1, 2} |-> dp_init_copy(gaba_init_fill_phantom(in.p))]]

NextPair ==
    \/ \E i \in {1, 2}, asec \in FwSections(ASections(in)),
          bsec \in FwSections(BSections(in)) :
           pair_fill_root(i, asec, i - 1, bsec, i - 1)
    \/ \E i \in {1, 2}, asec \in FwSections(ASections(in)),
          bsec \in FwSections(BSections(in)) :
           pair_fill(i, asec, bsec)
    \/ \E i \in {1, 2} : pair_trace(i)

SpecPair == InitPair /\ [][NextPair]_vars

sym_section_forward(cin, side, tailp, rev) ==
    [id |-> (IF side = "a" THEN 0 ELSE 4) + (IF tailp THEN 2 ELSE 0),
     base |-> IF ~tailp THEN 0 ELSE IF side = "a" THEN cin.alen ELSE cin.blen,
     len |-> IF tailp THEN TailLen ELSE IF side = "a" THEN cin.alen ELSE cin.blen,
     rev |-> FALSE]

sym_section(cin, side, tailp, rev) ==
    [id |-> (IF side = "a" THEN 0 ELSE 4) + (IF tailp THEN 2 ELSE 0)
            + (IF rev THEN 1 ELSE 0),
     base |-> IF ~tailp THEN 0 ELSE IF side = "a" THEN cin.alen ELSE cin.blen,
     len |-> IF tailp THEN TailLen ELSE IF side = "a" THEN cin.alen ELSE cin.blen,
     rev |-> rev]

\* the fill after the tail of d: a side goes on to its tail section when the
\* status of the tail has its update bit
sym_next_fill(cin, d, rev) ==
    Bind(d.journal[Len(d.journal)],
         LAMBDA seg :
             dp_fill(cin, d, Len(d.journal),
                     IF has_mask(seg.tail.stat, 1)
                     THEN sym_section(cin, "a", TRUE, rev) ELSE seg.asec,
                     IF has_mask(seg.tail.stat, 16)
                     THEN sym_section(cin, "b", TRUE, rev) ELSE seg.bsec))

\* m of the unit test: the first of the tails 2, 3, 4 with the largest max
sym_max_tail(J) ==
    Bind(IF J[3].tail.max > J[2].tail.max THEN 3 ELSE 2,
         LAMBDA m : IF J[4].tail.max > J[m].tail.max THEN 4 ELSE m)

sym_chain(cin, rev) ==
    sym_next_fill(cin,
        sym_next_fill(cin,
            dp_fill_root(cin, dp_init_copy(gaba_init_fill_phantom(cin.p)),
                         sym_section(cin, "a", FALSE, rev), 0,
                         sym_section(cin, "b", FALSE, rev), 0),
            rev),
        rev)

\* the run of a direction: the forward trace of the forward chain, the
\* reverse trace of the reverse chain
sym_run(cin, rev) ==
    Bind(sym_chain(cin, rev),
         LAMBDA d :
             IF rev THEN dp_trace(cin, d, 0, sym_max_tail(d.journal)).ret.aln
             ELSE dp_trace(cin, d, sym_max_tail(d.journal), 0).ret.aln)

RECURSIVE seq_rev(_)
seq_rev(q) == IF q = <<>> THEN <<>> ELSE Append(seq_rev(Tail(q)), Head(q))

sym_forward ==
    /\ rsym.pc = "in" /\ rsym.fw = <<>>
    /\ rsym' = [rsym EXCEPT !.fw = sym_run(MkIn(rsym.p, rsym.a, rsym.b), FALSE)]
    /\ UNCHANGED not_sym

sym_reverse ==
    /\ rsym.pc = "in" /\ rsym.rv = <<>>
    /\ rsym' = [rsym EXCEPT
            !.rv = sym_run(MkIn(rsym.p, seq_rev(rsym.a), seq_rev(rsym.b)), TRUE)]
    /\ UNCHANGED not_sym

SymSeqs ==
    { <<A>>, <<A, C>>, <<A, C, A>>, <<A, A, C, A, A>>,
      <<A, C, G, T, A, C, G, T>>, <<G, A, C, G, T, A, C, G, T>> }

InitSym ==
    /\ NoContext
    /\ band = Idle
    /\ eng = Idle
    /\ arena = Idle
    /\ pair = Idle
    /\ cig = Idle
    /\ rsym \in [pc : {"in"}, p : {Lin, Aff}, a : SymSeqs, b : SymSeqs,
                 fw : {<<>>}, rv : {<<>>}]

NextSym == sym_forward \/ sym_reverse

SpecSym == InitSym /\ [][NextSym]_vars

\* the first len bits of two paths, one read backwards
path_reversed(p1, p2) ==
    /\ p1.len = p2.len
    /\ \A k \in 1 .. p1.len : p1.array[k] = p2.array[p2.len + 1 - k]

\* bit k of a path read backwards by operations: a diagonal step stays the
\* pair 1 0, a gap bit stays itself
step_reversed_bit(p, k) ==
    Bind([j \in 1 .. p.len |-> p.array[p.len + 1 - j]],
         LAMBDA r :
             IF r[k] = 0 /\ k < p.len /\ r[k + 1] = 1 THEN 1
             ELSE IF r[k] = 1 /\ k > 1 /\ r[k - 1] = 0 THEN 0
             ELSE r[k])

\* two paths whose steps (diagonal, gap in a, gap in b) are in opposite order
steps_reversed(p1, p2) ==
    /\ p1.len = p2.len
    /\ \A k \in 1 .. p1.len : p1.array[k] = step_reversed_bit(p2, k)

sym_both == rsym.pc = "in" /\ rsym.fw # <<>> /\ rsym.rv # <<>>

\* both runs done, one of them with a gap, and paths that differ
C18_Witness ==
    /\ sym_both
    /\ rsym.fw.ret = "aln" /\ rsym.rv.ret = "aln"
    /\ rsym.fw.score > 0
    /\ rsym.fw.gicnt > 0
    /\ rsym.fw.path # rsym.rv.path

\* C18 as stated: the forward run on (A, B) and the reverse run on
\* (rev(A), rev(B)) give alignments of equal score, equal alen and blen,
\* and paths that are the reversal of each other
C18_ReverseSymmetry ==
    sym_both
        => /\ rsym.fw.ret = "aln" /\ rsym.rv.ret = "aln"
           /\ rsym.fw.score = rsym.rv.score
           /\ sec_sum(rsym.fw.sec, "a", 1) = sec_sum(rsym.rv.sec, "a", 1)
           /\ sec_sum(rsym.fw.sec, "b", 1) = sec_sum(rsym.rv.sec, "b", 1)
           /\ path_reversed(rsym.fw.path, rsym.rv.path)

\* C18, amended: the forward run on (A, B) and the reverse run on
\* (rev(A), rev(B)) give alignments of equal score, equal alen and blen,
\* and paths whose steps are in opposite order, a diagonal step being the
\* bit pair 1 0 in both
C18_StepSymmetry ==
    sym_both
        => /\ rsym.fw.ret = "aln" /\ rsym.rv.ret = "aln"
           /\ rsym.fw.score = rsym.rv.score
           /\ sec_sum(rsym.fw.sec, "a", 1) = sec_sum(rsym.rv.sec, "a", 1)
           /\ sec_sum(rsym.fw.sec, "b", 1) = sec_sum(rsym.rv.sec, "b", 1)
           /\ steps_reversed(rsym.fw.path, rsym.rv.path)

\* ------------------------------------------------------------------------
\* CIGAR of a path window.  A window c is the len bits win of a path from
\* bit offset on, what the buffer holds below the window (lo) and above it
\* (hi), and whether the path pointer is the odd word of a 64-bit pair.
\* ------------------------------------------------------------------------
MaxBits == 5
BulkPairs == 33

\* bit k of what lies outside a window, counted away from the window
outside_bit(pat, k) ==
    CASE pat = "zero" -> 0
      [] pat = "one" -> 1
      [] pat = "alt1" -> IF k % 2 = 0 THEN 1 ELSE 0
      [] OTHER -> IF k % 2 = 0 THEN 0 ELSE 1

\* bit at position pos counted from the aligned pointer p
path_bit(c, pos) ==
    Bind(pos - c.offset - (IF c.odd THEN 32 ELSE 0),
         LAMBDA r :
             IF r < 0 THEN outside_bit(c.lo, -r - 1)
             ELSE IF r >= Len(c.win) THEN outside_bit(c.hi, r - Len(c.win))
             ELSE c.win[r + 1])

\* bit k of the 64-bit word loaded at position pos
parse_load_uint64(c, pos, k) == path_bit(c, pos + k)

\* number of low bits of the loaded word that have property ok, 64 at most
tzcnt_word(ok(_)) ==
    IF \A k \in 0 .. 63 : ok(k) THEN 64
    ELSE CHOOSE n \in 0 .. 63 : ~ok(n) /\ \A k \in 0 .. n - 1 : ok(k)

\* number of high bits of the loaded word that have property ok
lzcnt_word(ok(_)) == tzcnt_word(LAMBDA k : ok(63 - k))

\* low bits equal to the pattern 0x5555555555555555
parse_count_match_forward(c, pos) ==
    tzcnt_word(LAMBDA k : parse_load_uint64(c, pos, k) = (IF k % 2 = 0 THEN 1 ELSE 0))

\* low bits equal to the lowest one, less one when that is a 1
parse_count_gap_forward(c, pos) ==
    Bind(parse_load_uint64(c, pos, 0),
         LAMBDA low :
             tzcnt_word(LAMBDA k : parse_load_uint64(c, pos, k) = low) - low)

parse_count_match_reverse(c, pos) ==
    lzcnt_word(LAMBDA k : parse_load_uint64(c, pos, k) = (IF k % 2 = 0 THEN 1 ELSE 0))

\* high bits equal to the highest one, less one when that is a 0
parse_count_gap_reverse(c, pos) ==
    Bind(parse_load_uint64(c, pos, 63),
         LAMBDA high :
             lzcnt_word(LAMBDA k : parse_load_uint64(c, pos, k) = high) - (1 - high))

clear_low_bit(n) == n - (n % 2)

\* the bulk loop of the forward scan: ridx after the diagonal bits from it on
RECURSIVE match_forward(_, _, _)
match_forward(c, lim, ridx) ==
    Bind(clear_low_bit(Min2(parse_count_match_forward(c, lim - ridx), ridx)),
         LAMBDA a : IF a < 64 THEN ridx - a ELSE match_forward(c, lim, ridx - a))

RECURSIVE match_reverse(_, _, _)
match_reverse(c, ofs, idx) ==
    Bind(clear_low_bit(Min2(parse_count_match_reverse(c, idx + ofs), idx)),
         LAMBDA a : IF a < 64 THEN idx - a ELSE match_reverse(c, ofs, idx - a))

put_run(runs, op, n) == IF n > 0 THEN Append(runs, [op |-> op, n |-> n]) ELSE runs

\* the outer loop of the forward scan from ridx bits before lim
RECURSIVE cigar_forward_loop(_, _, _, _)
cigar_forward_loop(c, lim, rsidx, runs) ==
    Bind(match_forward(c, lim, rsidx),
         LAMBDA ridx :
             Bind(put_run(runs, "M", (rsidx - ridx) \div 2),
                  LAMBDA rm :
                      IF ridx = 0 THEN rm
                      ELSE Bind(Min2(parse_count_gap_forward(c, lim - ridx), ridx),
                                LAMBDA g :
                                    Bind(put_run(rm,
                                             IF parse_load_uint64(c, lim - ridx, 0) = 1
                                             THEN "I" ELSE "D", g),
                                         LAMBDA rg :
                                             IF ridx - g <= 1 THEN rg
                                             ELSE cigar_forward_loop(c, lim, ridx - g, rg)))))

RECURSIVE cigar_reverse_loop(_, _, _, _)
cigar_reverse_loop(c, ofs, sidx, runs) ==
    Bind(match_reverse(c, ofs, sidx),
         LAMBDA idx :
             Bind(put_run(runs, "M", (sidx - idx) \div 2),
                  LAMBDA rm :
                      IF idx = 0 THEN rm
                      ELSE Bind(Min2(parse_count_gap_reverse(c, idx + ofs), idx),
                                LAMBDA g :
                                    Bind(put_run(rm,
                                             IF parse_load_uint64(c, idx + ofs, 63) = 1
                                             THEN "I" ELSE "D", g),
                                         LAMBDA rg :
                                             IF idx - g <= 1 THEN rg
                                             ELSE cigar_reverse_loop(c, ofs, idx - g, rg)))))

\* the runs written by the forward scan into a buffer with room for them
cigar_forward(c) ==
    cigar_forward_loop(c, c.offset + (IF c.odd THEN 32 ELSE 0) + Len(c.win),
                       Len(c.win), <<>>)

cigar_reverse(c) ==
    cigar_reverse_loop(c, c.offset + (IF c.odd THEN -32 ELSE -64),
                       Len(c.win), <<>>)

gaba_dp_dump_cigar_forward ==
    /\ cig.pc = "in" /\ "fw" \notin cig.done
    /\ cig' = [cig EXCEPT !.fw = cigar_forward(cig.c), !.done = @ \cup {"fw"}]
    /\ UNCHANGED not_cig

gaba_dp_dump_cigar_reverse ==
    /\ cig.pc = "in" /\ "rv" \notin cig.done
    /\ cig' = [cig EXCEPT !.rv = cigar_reverse(cig.c), !.done = @ \cup {"rv"}]
    /\ UNCHANGED not_cig

RECURSIVE BitStrings(_)
BitStrings(n) ==
    IF n = 0 THEN {<<>>}
    ELSE {<<>>} \cup {<<b>> \o q : b \in {0, 1}, q \in BitStrings(n - 1)}

\* n diagonal steps
diagonals(n) == [k \in 1 .. 2 * n |-> k % 2]

Windows ==
    [win : BitStrings(MaxBits)
               \cup {diagonals(BulkPairs) \o q : q \in BitStrings(2)}
               \cup {q \o diagonals(BulkPairs) : q \in BitStrings(2)},
     offset : {0, 12}, odd : BOOLEAN,
     lo : {"zero", "one", "alt0", "alt1"},
     hi : {"zero", "one", "alt0", "alt1"}]

InitCigar ==
    /\ NoContext
    /\ band = Idle
    /\ eng = Idle
    /\ arena = Idle
    /\ pair = Idle
    /\ rsym = Idle
    /\ cig \in [pc : {"in"}, c : Windows, fw : {<<>>}, rv : {<<>>}, done : {{}}]

NextCigar == gaba_dp_dump_cigar_forward \/ gaba_dp_dump_cigar_reverse

SpecCigar == InitCigar /\ [][NextCigar]_vars

\* the bits a run list stands for: a diagonal step is a 1 and a 0, an
\* insertion a 1, a deletion a 0
RECURSIVE run_bits(_)
run_bits(runs) ==
    IF runs = <<>> THEN <<>>
    ELSE Bind(Head(runs),
              LAMBDA r :
                  (CASE r.op = "M" -> diagonals(r.n)
                     [] r.op = "I" -> [k \in 1 .. r.n |-> 1]
                     [] OTHER -> [k \in 1 .. r.n |-> 0])
                  \o run_bits(Tail(runs)))

RECURSIVE run_sum(_)
run_sum(runs) ==
    IF runs = <<>> THEN 0
    ELSE (IF Head(runs).op = "M" THEN 2 * Head(runs).n ELSE Head(runs).n)
         + run_sum(Tail(runs))

\* C19: the run list of the forward scan stands, run by run in path order,
\* for exactly the bits of the window, so that 2 * sum(M) + sum(I) + sum(D)
\* is len, whatever lies outside the window
C19_ForwardDecomposes ==
    (cig.pc = "in" /\ "fw" \in cig.done)
        => /\ run_bits(cig.fw) = cig.c.win
           /\ run_sum(cig.fw) = Len(cig.c.win)

\* C20: the run list of the reverse scan is the run list of the forward
\* scan in reverse order, whatever lies outside the window
C20_ReverseIsForwardReversed ==
    (cig.pc = "in" /\ cig.done = {"fw", "rv"})
        => cig.rv = seq_rev(cig.fw)

\* ------------------------------------------------------------------------
\* the cell the maximum locator reports
\* ------------------------------------------------------------------------
\* score of lane q after step p of a journal entry: the offset of the block
\* before, the middle delta and the delta of the lane when the block is
\* filled again up to the step
cell_score(P, seg, p, q) ==
    Bind(block_at(seg, p \div BLK),
         LAMBDA pblk :
             pblk.offset + gaba_init_fill_middle_delta(P)[q + 1]
             + fill_steps([p |-> P, sc |-> gaba_init_create_score_vector(P),
                           cur |-> <<block_at(seg, (p \div BLK) + 1)>>],
                          pblk, fill_load_context(P, pblk), FALSE,
                          (p % BLK) + 1).delta[q + 1])

\* the locator on tail k is right: a cell of the tail with the score
\* tail.max, or p = -1 for a maximum that is the score of the root
leaf_found(P, J, k) ==
    Bind(leaf_search(P, J[k], k),
         LAMBDA l :
             IF l.p = -1 THEN J[k].tail.max = J[1].tail.max
             ELSE /\ l.p < J[k].tail.p
                  /\ l.q \in Lanes
                  /\ cell_score(P, J[k], l.p, l.q) = J[k].tail.max)

\* C21: for every tail of the chain, also one that only carries the maximum
\* of an earlier section, the locator reports a cell whose score is the max
\* of the tail, and p = -1 only for a maximum at the phantom root
C21_LocatorFindsMax ==
    \A k \in 2 .. Len(journal) : leaf_found(in.p, journal, k)

\* ------------------------------------------------------------------------
\* the tails a call to fill appends
\* ------------------------------------------------------------------------
\* the tails the fills since the save returned; the tail before each of the
\* fills has psum = 0 and ssum = 0
ReturnedTails ==
    IF arena.pc = "live"
    THEN {arena.run1[i].tail : i \in 1 .. Len(arena.run1)} \ {<<>>}
    ELSE {}

\* C22 as stated: every call to fill or fill_root appends exactly one tail,
\* with ssum one more than that of the tail the caller gave and psum more by
\* the steps of the call, also when the arena grows during the call
C22_OneTailPerCall ==
    \A t \in ReturnedTails : t.ssum = 1 /\ t.psum = t.p

\* C22, amended: every fill loop of a call appends one tail, so a call
\* appends one tail and one more for every part it filled before the arena
\* grew; ssum counts them all, psum counts the steps of the whole call and
\* p those of the last loop
C22_OneTailPerFillLoop ==
    \A t \in ReturnedTails :
        /\ t.ssum = 1 + t.parts
        /\ t.psum >= t.p
        /\ t.parts = 0 => t.psum = t.p
        /\ (t.parts > 0 /\ t.stat = UPDATE) => t.psum > t.p

\* a fill that grew the arena after a part of MIN_BULK_BLOCKS blocks or more
C22_Witness ==
    \E t \in ReturnedTails :
        t.parts = 1 /\ t.ssum = 2 /\ t.p > 0 /\ t.psum > MIN_BULK_BLOCKS * BLK

\* ------------------------------------------------------------------------
\* the X-drop test and the scores at a block boundary
\* ------------------------------------------------------------------------
\* score of the centre lane of the frontier a block ends with
centre_score(P, blk) ==
    blk.offset + lane(gaba_init_fill_middle_delta(P), Half) + lane(blk.delta, Half)

\* the largest score seen up to the end of a block, as fill_create_tail
\* takes it from the max vector
max_score(P, blk) ==
    blk.offset
    + hmax_w([k \in 1 .. BW |->
                 W16(gaba_init_fill_middle_delta(P)[k] + blk.max[k])])

\* the centre lane is more than tx below the maximum
xdrop_due(P, blk) == max_score(P, blk) - centre_score(P, blk) > P.xdrop

\* the blocks of entry k the fill went on from: the X-drop test was made on
\* each of them and did not end the fill
PassedBlocks(k) ==
    IF journal[k].blks = <<>> THEN {}
    ELSE {block_at(journal[k], b) : b \in 0 .. (Len(journal[k].blks) - 1)}

\* C23: at a block boundary the fill stops with TERM if and only if the
\* centre lane of the frontier is more than tx below the maximum seen so far
C23_XdropIffCentreBelowMax ==
    \A k \in Fills :
        /\ XdropFired(k) => xdrop_due(in.p, last_block(journal[k]))
        /\ \A blk \in PassedBlocks(k) : ~xdrop_due(in.p, blk)

\* the centre lane is more than tx below the largest score the centre lane
\* has held, as the max vector keeps it
xdrop_due_centre(P, blk) ==
    (blk.offset + lane(gaba_init_fill_middle_delta(P), Half) + lane(blk.max, Half))
        - centre_score(P, blk) > P.xdrop

\* C23, amended: the fill stops with TERM at a block boundary if and only if
\* the centre lane of the frontier is more than tx below the largest score
\* of the centre lane itself
C23_XdropIffCentreBelowOwnMax ==
    \A k \in Fills :
        /\ XdropFired(k) => /\ has_mask(TailOf(k).stat, TERM)
                            /\ xdrop_due_centre(in.p, last_block(journal[k]))
        /\ \A blk \in PassedBlocks(k) : ~xdrop_due_centre(in.p, blk)
        /\ (has_mask(TailOf(k).stat, TERM) /\ ~VetoFired(k))
               => xdrop_due_centre(in.p, last_block(journal[k]))

\* a fill the test ended after a block, and a fill that went on from a block
\* whose centre lane was more than tx below the maximum of another lane
C23_Witness ==
    /\ \E k \in Fills : /\ XdropFired(k) /\ has_mask(TailOf(k).stat, TERM)
                        /\ journal[k].blks # <<>>
    /\ \E k \in Fills : \E blk \in PassedBlocks(k) : xdrop_due(in.p, blk)

\* the sequences of the X-drop runs: a pair with a base more on one side
XdropSeqs ==
    { <<A, C, G, T, A, C, G, T>>, <<G, A, C, G, T, A, C, G, T>>, <<A>>, <<>> }

XdropValues == {4, 15}

InitXdrop ==
    /\ in \in {MkIn([pp EXCEPT !.xdrop = x], sa, sb) :
                  pp \in {Lin, Aff}, x \in XdropValues,
                  sa \in XdropSeqs, sb \in XdropSeqs}
    /\ journal = <<gaba_init_fill_phantom(in.p)>>
    /\ ret = [op |-> "init", tail |-> 1]
    /\ band = Idle
    /\ eng = Idle
    /\ arena = Idle
    /\ pair = Idle
    /\ rsym = Idle
    /\ cig = Idle

NextXdrop ==
    \/ /\ ret.op = "init"
       /\ \E asec \in FwSections(ASections(in)),
             bsec \in FwSections(BSections(in)) :
              gaba_dp_fill_root(asec, 0, bsec, 0)
    \/ /\ Len(journal) <= MaxChain
       /\ \E prev \in {Len(journal)}, asec \in FwSections(ASections(in)),
             bsec \in FwSections(BSections(in)) :
              gaba_dp_fill(prev, asec, bsec)

SpecXdrop == InitXdrop /\ [][NextXdrop]_vars


\* lane k of the initial vector holds a match on diagonal d: the centre
\* diagonal pairs the k-th base of A before the centre with the k-th base
\* of B after it, the two neighbours shift one of the two by one base
diag_match(cha, chb, d, k) ==
    LET ka == IF d < 0 THEN k + 1 ELSE k
        kb == IF d > 0 THEN k + 1 ELSE k
    IN  /\ ka <= 15 /\ kb <= 14
        /\ and4(cha[16 - ka], chb[16 + kb + 2]) # 0

\* the char vectors hold n consecutive matches on one diagonal
diag_run(cha, chb, n) ==
    \E d \in {-1, 0, 1} : \E s \in 0 .. (16 - n) :
        \A k \in s .. (s + n - 1) : diag_match(cha, chb, d, k)

\* fill k completed the initial vector
InitialVectorFilled(k) == PrevOf(k).psum < 0 /\ TailOf(k).psum >= 0

\* fill k was ended with TERM at its phantom block
MarkedAtPhantom(k) ==
    has_mask(TailOf(k).stat, TERM) /\ journal[k].blks = <<>>

\* C24: a fill that completes the initial vector is marked TERM iff tf > 0
\* and the char vectors hold no diagonal run of at least tf matches; with
\* tf = 0 the filter never vetoes
C24_FilterVetoIffNoRun ==
    \A k \in Fills :
        InitialVectorFilled(k) =>
            (MarkedAtPhantom(k) <=>
                (in.p.tf > 0
                 /\ ~diag_run(journal[k].ph.cha, journal[k].ph.chb,
                              in.p.tf)))


\* ------------------------------------------------------------------------
\* fills of long sections: the blocks that fill_seq_bounded fills without a
\* sequence bound test
\* ------------------------------------------------------------------------
BulkLen == 730
BulkMargin == 400

\* the first n symbols of the unit u repeated
periodic(u, n) == [k \in 1 .. n |-> u[((k - 1) % Len(u)) + 1]]

\* a scheme whose gaps are cheap against its matches
Drift ==
    [model |-> LINEAR, m |-> 10, x |-> 10, gi |-> 0, ge |-> 1,
     xdrop |-> 100, tf |-> 0]

\* a context over two periodic sequences of n symbols, each followed by
\* more sequence than a fill can read
MkBulk(p, ua, ub, n) ==
    [p |-> p, seqa |-> periodic(ua, n) \o periodic(<<G>>, BulkMargin),
     seqb |-> periodic(ub, n) \o periodic(<<C>>, BulkMargin),
     alen |-> n, blen |-> n]

BulkUnits == { <<A>>, <<A, C, C>>, <<A, C, G, T>> }

InitBulk ==
    /\ in \in {MkBulk(pp, ua, ub, n) :
                  pp \in {Drift, Aff}, ua \in BulkUnits, ub \in BulkUnits,
                  n \in {BLK + 8, 2 * BLK, BulkLen}}
    /\ journal = <<gaba_init_fill_phantom(in.p)>>
    /\ ret = [op |-> "init", tail |-> 1]
    /\ band = Idle
    /\ eng = Idle
    /\ arena = Idle
    /\ pair = Idle
    /\ rsym = Idle
    /\ cig = Idle

\* fill_root over the two long sections, then one fill over the sections
\* that follow them
NextBulk ==
    \/ /\ ret.op = "init"
       /\ \E asec \in {sec \in FwSections(ASections(in)) : sec.base = 0},
             bsec \in {sec \in FwSections(BSections(in)) : sec.base = 0} :
              gaba_dp_fill_root(asec, 0, bsec, 0)
    \/ /\ Len(journal) = 2
       /\ \E prev \in {Len(journal)},
             asec \in {sec \in FwSections(ASections(in)) : sec.base > 0},
             bsec \in {sec \in FwSections(BSections(in)) : sec.base > 0} :
              gaba_dp_fill(prev, asec, bsec)

SpecBulk == InitBulk /\ [][NextBulk]_vars

\* the blocks of entry k, its phantom block included
BlocksOf(k) == {block_at(journal[k], b) : b \in 0 .. Len(journal[k].blks)}

\* C25: in every block written by a fill aridx >= 0 and bridx >= 0: no
\* more symbols are consumed from a section than the section holds
C25_FillStaysInsideSections ==
    \A k \in Fills : \A blk \in BlocksOf(k) :
        blk.aridx >= 0 /\ blk.bridx >= 0


\* the anti-diagonal steps filled in block b >= 1 of a journal entry: each
\* step takes one symbol of A or of B
steps_in(seg, b) ==
    (block_at(seg, b - 1).aridx - block_at(seg, b).aridx)
    + (block_at(seg, b - 1).bridx - block_at(seg, b).bridx)

\* n steps of the fill loop, with the sign of the accumulator before each
\* of them (1 when it was negative)
RECURSIVE steps_hist(_, _, _, _)
steps_hist(c, pblk, r, n) ==
    IF n = 1
    THEN [r |-> fill_step(c, pblk, r, FALSE),
          hist |-> <<IF r.acc < 0 THEN 1 ELSE 0>>]
    ELSE Bind(steps_hist(c, pblk, r, n \div 2),
              LAMBDA h :
                  IF h.r.i >= 0
                  THEN Bind(steps_hist(c, pblk, h.r, n - (n \div 2)),
                            LAMBDA g :
                                IF g.r.i >= 0
                                THEN [r |-> g.r, hist |-> h.hist \o g.hist]
                                ELSE g)
                  ELSE h)

\* block b of the entry filled again from the block before it
acc_signs(P, seg, b) ==
    steps_hist([p |-> P, sc |-> gaba_init_create_score_vector(P),
                cur |-> <<block_at(seg, b)>>],
               block_at(seg, b - 1),
               fill_load_context(P, block_at(seg, b - 1)),
               steps_in(seg, b)).hist

\* the stored blocks with a step in them
StoredBlocks ==
    {kb \in Fills \X (1 .. (2 * MIN_BULK_BLOCKS)) :
        kb[2] <= Len(journal[kb[1]].blks) /\ steps_in(journal[kb[1]], kb[2]) > 0}

\* C26 as stated: the popcount of the bottom k + 1 bits of the direction
\* array of a block is the number of down steps among its first k + 1
\* steps, a step being down when the accumulator was negative before it
C26_BottomBitsCountDownSteps ==
    \A kb \in StoredBlocks :
        Bind(acc_signs(in.p, journal[kb[1]], kb[2]),
             LAMBDA hist :
                 \A k \in 0 .. (Len(hist) - 1) :
                     popcnt(SubSeq(block_at(journal[kb[1]], kb[2]).array,
                                   1, k + 1))
                         = popcnt(SubSeq(hist, 1, k + 1)))

\* C26: the popcount of the top k + 1 bits of the direction array of a
\* block, full or partially filled, (the array shifted right by BLK - 1 - k)
\* is the number of down steps among its first k + 1 steps, a step being
\* down when the accumulator was negative before it
C26_TopBitsCountDownSteps ==
    \A kb \in StoredBlocks :
        Bind(acc_signs(in.p, journal[kb[1]], kb[2]),
             LAMBDA hist :
                 \A k \in 0 .. (Len(hist) - 1) :
                     popcnt(dir_load(block_at(journal[kb[1]], kb[2]), k))
                         = popcnt(SubSeq(hist, 1, k + 1)))

\* a full block and a partially filled block, each with steps in both
\* directions
C26_Witness ==
    /\ \E kb \in StoredBlocks :
          /\ steps_in(journal[kb[1]], kb[2]) = BLK
          /\ popcnt(block_at(journal[kb[1]], kb[2]).array) \in 1 .. (BLK - 1)
    /\ \E kb \in StoredBlocks :
          /\ steps_in(journal[kb[1]], kb[2]) \in 2 .. (BLK - 1)
          /\ popcnt(block_at(journal[kb[1]], kb[2]).array)
                 \in 1 .. (steps_in(journal[kb[1]], kb[2]) - 1)


\* ------------------------------------------------------------------------
\* traces that join a reverse and a forward extension
\* ------------------------------------------------------------------------
\* the positions a caller starts an extension at
CatPos == {0, 6}

CatInputs ==
    { MkIn(Lin, <<A, C, G, T, A, C, G, T, A, C, G, T>>,
                <<A, C, G, T, A, C, G, T, A, C, G, T>>),
      MkIn(Aff, <<A, C, G, T, A, C, G, T, A, C, G, T>>,
                <<A, C, G, T, A, C, G, T, A, C, G, T>>) }

InitCat ==
    /\ in \in CatInputs
    /\ journal = <<gaba_init_fill_phantom(in.p)>>
    /\ ret = [op |-> "init", tail |-> 1]
    /\ band = Idle
    /\ eng = Idle
    /\ arena = Idle
    /\ pair = Idle
    /\ rsym = Idle
    /\ cig = Idle

MaxCat == 4

\* gaba_dp_fill_root from a position inside the two sections
cat_fill_root(asec, apos, bsec, bpos) ==
    /\ ret.op \in {"init", "fill"}
    /\ Len(journal) <= MaxCat
    /\ asec.rev = bsec.rev
    /\ apos < asec.len /\ bpos < bsec.len
    /\ LET root == [journal[1] EXCEPT !.tail.apos = apos, !.tail.bpos = bpos]
           seg == fill_section_seq_bounded(in, 1, root, asec, bsec)
       IN  /\ journal' = Append([journal EXCEPT ![1] = root], seg)
           /\ ret' = [op |-> "fill_root", tail |-> Len(journal) + 1]
    /\ UNCHANGED <<in, others>>

\* gaba_dp_fill from the tail returned last
cat_fill(asec, bsec) ==
    /\ ret.op = "fill_root"
    /\ Len(journal) <= MaxCat
    /\ Continues(Len(journal), asec, bsec)
    /\ LET seg == fill_section_seq_bounded(in, Len(journal),
                      journal[Len(journal)], asec, bsec)
       IN  /\ journal' = Append(journal, seg)
           /\ ret' = [op |-> "fill", tail |-> Len(journal) + 1]
    /\ UNCHANGED <<in, others>>

\* the caller extends forwards and backwards from positions inside the two
\* sequences, continues each extension once over the sections that follow,
\* and traces two of the tails, one as the forward and one as the reverse
\* tail
NextCat ==
    \/ \E asec \in {sec \in ASections(in) : sec.base = 0},
          bsec \in {sec \in BSections(in) : sec.base = 0},
          apos \in CatPos, bpos \in CatPos :
           cat_fill_root(asec, apos, bsec, bpos)
    \/ \E asec \in {sec \in ASections(in) : sec.base > 0},
          bsec \in {sec \in BSections(in) : sec.base > 0} :
           cat_fill(asec, bsec)
    \/ /\ ret.op # "trace"
       /\ \E fw_tail \in 2 .. Len(journal), rv_tail \in 2 .. Len(journal) :
              gaba_dp_trace(fw_tail, rv_tail, FALSE, {})

SpecCat == InitCat /\ [][NextCat]_vars

\* the two section lists trace_refine_alignment concatenates: those of the
\* reverse tail and those of the forward tail
trace_lists(P, J, fw_tail, rv_tail) ==
    Bind(trace_init_alignment(P, J[fw_tail].tail, J[rv_tail].tail, 0, 0),
         LAMBDA res :
    Bind(trace_forward_generate_alignment(P, J, {},
             leaf_search(P, J[fw_tail], fw_tail), res.fw, res.mem),
         LAMBDA fw :
             IF fw.err # "" THEN [ok |-> FALSE]
             ELSE Bind(trace_reverse_generate_alignment(P, J, {},
                           leaf_search(P, J[rv_tail], rv_tail), res.rv,
                           fw.mem),
                       LAMBDA rv :
                           IF rv.err # "" THEN [ok |-> FALSE]
                           ELSE [ok |-> TRUE, rv |-> rv.secs,
                                 fw |-> fw.secs])))

\* the right section starts where the left one ends, on the same sequences
shares_boundary(l, r) ==
    /\ l.aid = r.aid /\ l.bid = r.bid
    /\ r.apos = l.apos + l.alen
    /\ r.bpos = l.bpos + l.blen

\* the sections sec are the lists left and right with the two sections at
\* the join merged
cat_merged(sec, left, right) ==
    /\ Len(sec) = Len(left) + Len(right) - 1
    /\ sec[Len(left)].alen = left[Len(left)].alen + right[1].alen
    /\ sec[Len(left)].blen = left[Len(left)].blen + right[1].blen

\* the sections sec are the lists left and right with both sections kept
cat_kept(sec, left, right) ==
    /\ Len(sec) = Len(left) + Len(right)
    /\ sec[Len(left)].alen = left[Len(left)].alen
    /\ sec[Len(left)].blen = left[Len(left)].blen
    /\ sec[Len(left) + 1].alen = right[1].alen
    /\ sec[Len(left) + 1].blen = right[1].blen

\* the last trace joined two lists that are not empty
CatJoined(t) ==
    /\ ret.op = "trace" /\ ret.aln.ret = "aln"
    /\ t.ok /\ t.rv # <<>> /\ t.fw # <<>>

\* C27: the last section of the left list and the first of the right list
\* are merged iff they share boundary coordinates exactly; on a merge the
\* left one absorbs alen and blen of the right one and the count drops by
\* one, otherwise both are kept
C27_MergeIffSharedBoundary ==
    ret.op = "trace" =>
        Bind(trace_lists(in.p, journal, ret.fw, ret.rv),
             LAMBDA t :
                 CatJoined(t) =>
                     IF shares_boundary(t.rv[Len(t.rv)], t.fw[1])
                     THEN cat_merged(ret.aln.sec, t.rv, t.fw)
                     ELSE cat_kept(ret.aln.sec, t.rv, t.fw))


\* ------------------------------------------------------------------------
\* gaba_dp_search_max
\* ------------------------------------------------------------------------
\* one of the two while loops of gaba_dp_search_max (m = 1 for a, 16 for
\* b); s is [tail, idx], tail 0 once the walk has read the back-link of the
\* root tail, which is NULL
RECURSIVE search_max_loop(_, _, _)
search_max_loop(J, m, s) ==
    IF s.idx > 0 \/ s.tail = 0 THEN s
    ELSE Bind(walk_update(J, s.tail, m),
              LAMBDA n :
                  IF n = 0 THEN [s EXCEPT !.tail = 0]
                  ELSE search_max_loop(J, m,
                           [tail |-> n,
                            idx |-> s.idx + (IF m = 1 THEN J[n].tail.alen
                                                      ELSE J[n].tail.blen)]))

\* gaba_dp_search_max on the tail of journal entry k: the position pair,
\* or a fault when a walk goes through the null back-link
gaba_dp_search_max_result(P, J, k) ==
    Bind(leaf_search(P, J[k], k),
         LAMBDA leaf :
    Bind(search_max_loop(J, 1,
             [tail |-> k, idx |-> J[k].tail.alen - leaf.aridx]),
         LAMBDA a :
    Bind(search_max_loop(J, 16,
             [tail |-> k, idx |-> J[k].tail.blen - leaf.bridx]),
         LAMBDA b :
             IF a.tail = 0 \/ b.tail = 0 THEN [ret |-> "fault"]
             ELSE [ret |-> "pos", apos |-> a.idx - 1, bpos |-> b.idx - 1])))

gaba_dp_search_max(k) ==
    /\ ret.op \in {"fill_root", "fill"}
    /\ k \in 2 .. Len(journal)
    /\ ret' = [op |-> "search_max", tail |-> k,
               pos |-> gaba_dp_search_max_result(in.p, journal, k)]
    /\ UNCHANGED <<in, journal, others>>

\* the caller fills a chain and asks for the maximum of one of its handles
NextMax ==
    \/ /\ ret.op = "init"
       /\ \E asec \in ASections(in), bsec \in BSections(in) :
              gaba_dp_fill_root(asec, 0, bsec, 0)
    \/ \E prev \in {Len(journal)}, asec \in ASections(in),
          bsec \in BSections(in) :
           gaba_dp_fill(prev, asec, bsec)
    \/ \E k \in 2 .. Len(journal) : gaba_dp_search_max(k)

SpecMax == Init /\ [][NextMax]_vars

\* C28: gaba_dp_search_max returns a position for every fill handle; its
\* walks over the tail chain never follow the null back-link of the root
C28_SearchMaxTotal ==
    ret.op = "search_max" => ret.pos.ret = "pos"


\* ------------------------------------------------------------------------
\* CIGAR dump into a buffer of buf_size bytes
\* ------------------------------------------------------------------------
filled_len_margin == 5
LongPairs == 1000

\* the decimal digits of len > 0 (the while loop of the long branch)
RECURSIVE dump_digits(_)
dump_digits(len) == IF len = 0 THEN 0 ELSE 1 + dump_digits(len \div 10)

\* parse_dump_match_string: the bytes written for a run of len matches, by
\* the table for len < 64 (a tens digit only when it is not zero) and by
\* the digit loop otherwise
parse_dump_match_string(len) ==
    IF len < 64 THEN (IF len \div 10 # 0 THEN 1 ELSE 0) + 2
    ELSE dump_digits(len) + 1

\* parse_dump_gap_string: the same for a gap run
parse_dump_gap_string(len) ==
    IF len < 64 THEN (IF len \div 10 # 0 THEN 1 ELSE 0) + 2
    ELSE dump_digits(len) + 1

\* b > blim, with blim = buf + buf_size - filled_len_margin; for a
\* buf_size below the margin blim lies before the buffer and the outcome
\* of the comparison is the one the build gives, s.under
dump_over(s, b) ==
    IF s.size >= filled_len_margin THEN b > s.size - filled_len_margin
    ELSE s.under

\* the outer loop of gaba_dp_dump_cigar_forward with the write offset b
RECURSIVE dump_forward_loop(_, _, _, _, _)
dump_forward_loop(c, s, lim, rsidx, b) ==
    Bind(match_forward(c, lim, rsidx),
         LAMBDA ridx :
    Bind(IF rsidx - ridx >= 2
         THEN b + parse_dump_match_string((rsidx - ridx) \div 2) ELSE b,
         LAMBDA bm :
             IF ridx = 0 \/ dump_over(s, bm) THEN bm
             ELSE Bind(Min2(parse_count_gap_forward(c, lim - ridx), ridx),
                       LAMBDA g :
                  Bind(IF g > 0 THEN bm + parse_dump_gap_string(g) ELSE bm,
                       LAMBDA bg :
                           IF ridx - g <= 1 \/ dump_over(s, bg) THEN bg
                           ELSE dump_forward_loop(c, s, lim, ridx - g, bg)))))

\* the outer loop of gaba_dp_dump_cigar_reverse with the write offset b
RECURSIVE dump_reverse_loop(_, _, _, _, _)
dump_reverse_loop(c, s, ofs, sidx, b) ==
    Bind(match_reverse(c, ofs, sidx),
         LAMBDA idx :
    Bind(IF sidx - idx >= 2
         THEN b + parse_dump_match_string((sidx - idx) \div 2) ELSE b,
         LAMBDA bm :
             IF idx = 0 \/ dump_over(s, bm) THEN bm
             ELSE Bind(Min2(parse_count_gap_reverse(c, idx + ofs), idx),
                       LAMBDA g :
                  Bind(IF g > 0 THEN bm + parse_dump_gap_string(g) ELSE bm,
                       LAMBDA bg :
                           IF idx - g <= 1 \/ dump_over(s, bg) THEN bg
                           ELSE dump_reverse_loop(c, s, ofs, idx - g, bg)))))

\* the bytes written, the terminating NUL at offset b included
dump_cigar_forward(c, s) ==
    dump_forward_loop(c, s,
        c.offset + (IF c.odd THEN 32 ELSE 0) + Len(c.win), Len(c.win), 0) + 1

dump_cigar_reverse(c, s) ==
    dump_reverse_loop(c, s,
        c.offset + (IF c.odd THEN -32 ELSE -64), Len(c.win), 0) + 1

dump_forward ==
    /\ cig.pc = "dump" /\ "fw" \notin cig.done
    /\ cig' = [cig EXCEPT !.fw = dump_cigar_forward(cig.c, cig.s),
                          !.done = @ \cup {"fw"}]
    /\ UNCHANGED not_cig

dump_reverse ==
    /\ cig.pc = "dump" /\ "rv" \notin cig.done
    /\ cig' = [cig EXCEPT !.rv = dump_cigar_reverse(cig.c, cig.s),
                          !.done = @ \cup {"rv"}]
    /\ UNCHANGED not_cig

\* paths of a few steps, and paths with a run of LongPairs diagonal steps
DumpWindows ==
    [win : BitStrings(MaxBits)
               \cup {q \o diagonals(LongPairs) \o r :
                        q \in BitStrings(1), r \in BitStrings(1)},
     offset : {0}, odd : BOOLEAN,
     lo : {"zero", "alt1"}, hi : {"zero", "alt1"}]

DumpSizes == {1, 4, 5, 8, 16}

InitDump ==
    /\ NoContext
    /\ band = Idle
    /\ eng = Idle
    /\ arena = Idle
    /\ pair = Idle
    /\ rsym = Idle
    /\ cig \in [pc : {"dump"}, c : DumpWindows,
                s : [size : DumpSizes, under : BOOLEAN],
                fw : {0}, rv : {0}, done : {{}}]

NextDump == dump_forward \/ dump_reverse

SpecDump == InitDump /\ [][NextDump]_vars

\* C29: neither dump writes more than buf_size bytes into buf, the
\* terminating NUL included
C29_DumpStaysInsideBuffer ==
    cig.pc = "dump" =>
        /\ "fw" \in cig.done => cig.fw <= cig.s.size
        /\ "rv" \in cig.done => cig.rv <= cig.s.size

\* ------------------------------------------------------------------------
\* a caller that keeps a stack handle and restores it more than once
\* ------------------------------------------------------------------------
\* The handle is a struct gaba_stack_s that gaba_dp_save_stack takes from
\* the arena itself: it lies at <<region, offset>> = at, and its three
\* fields are val.  gaba_dp_flush_stack(h) sets stack_top back to what it
\* was before the handle was allocated, so the bytes of the handle are free
\* memory from then on: the block an allocation hands out over them, or the
\* blocks a fill writes over them, take the place of the three fields
\* (over).  first is what the first restore of the handle left in the
\* context, n the number of its restores.
\* the block <<region, offset, size>> covers bytes of the handle at at
covers_stack(blk, at) ==
    /\ at # <<>>
    /\ blk[1] = at[1]
    /\ blk[2] < at[2] + sizeof_stack
    /\ blk[2] + blk[3] > at[2]

\* the three fields read from a handle whose bytes were written over: what
\* the caller or the fill stored there
WrittenOver(a) ==
    [mem : 0 .. Len(a.mem),
     stack_top : {0, sizeof_dp_context, a.stack_top},
     stack_end : {0, a.stack_end}]

\* gaba_dp_init of such a caller
handle_dp_init ==
    /\ arena.pc = "idle"
    /\ arena' = [pc |-> "handle", a |-> gaba_dp_init_context, at |-> <<>>,
                 val |-> <<>>, over |-> FALSE, first |-> <<>>, n |-> 0]
    /\ UNCHANGED not_arena

\* h = gaba_dp_save_stack(self), the host allocator giving what is asked
handle_dp_save_stack ==
    /\ arena.pc = "handle" /\ arena.a.ops < MaxOps
    /\ Bind(gaba_dp_malloc(enter(arena.a), sizeof_stack, TRUE),
            LAMBDA a1 :
                /\ ~a1.refused
                /\ arena' = [arena EXCEPT
                                 !.a = [a1 EXCEPT !.ret = "stack"],
                                 !.at = <<a1.ptr[1], a1.ptr[2]>>,
                                 !.val = stack_of(arena.a),
                                 !.over = FALSE, !.first = <<>>, !.n = 0])
    /\ UNCHANGED not_arena

\* gaba_dp_flush_stack(self, h) with the handle the caller kept: the three
\* fields are read from the bytes of the handle as they are now
handle_dp_flush_stack ==
    /\ arena.pc = "handle" /\ arena.a.ops < MaxOps
    /\ arena.at # <<>>
    /\ \E v \in IF arena.over THEN WrittenOver(arena.a) ELSE {arena.val} :
           arena' = [arena EXCEPT
                        !.a = [enter(arena.a) EXCEPT !.ret = "restored",
                                   !.curr_mem = v.mem,
                                   !.stack_top = v.stack_top,
                                   !.stack_end = v.stack_end],
                        !.pc = IF arena.over THEN "lost" ELSE @,
                        !.first = IF arena.n = 0 THEN v ELSE @,
                        !.n = @ + 1]
    /\ UNCHANGED not_arena

\* gaba_dp_malloc(self, size) of the caller
handle_dp_malloc(size) ==
    /\ arena.pc = "handle" /\ arena.a.ops < MaxOps
    /\ Bind(gaba_dp_malloc(enter(arena.a), size, TRUE),
            LAMBDA a1 :
                /\ ~a1.refused
                /\ arena' = [arena EXCEPT
                                 !.a = [a1 EXCEPT !.ret = "ptr"],
                                 !.over = @ \/ covers_stack(a1.ptr, arena.at)])
    /\ UNCHANGED not_arena

\* gaba_dp_fill_root or gaba_dp_fill on sections of which the shorter has
\* len bases left: the phantom block, the blocks and the tail are written
\* from stack_top on
handle_dp_fill(len) ==
    /\ arena.pc = "handle" /\ arena.a.ops < MaxOps
    /\ Bind(fill_section_mem(
                [a |-> enter(arena.a),
                 t |-> [rem |-> len, psum |-> 0, p |-> 0,
                        ssum |-> 0, stat |-> CONT, parts |-> 0],
                 null |-> FALSE], 0, TRUE),
            LAMBDA r :
                /\ ~r.null
                /\ r.a.curr_mem = arena.a.curr_mem
                /\ arena' = [arena EXCEPT
                                 !.a = [r.a EXCEPT !.ret = "tail"],
                                 !.over = @ \/ covers_stack(
                                                   <<arena.a.curr_mem,
                                                     arena.a.stack_top,
                                                     r.a.stack_top
                                                         - arena.a.stack_top>>,
                                                   arena.at)])
    /\ UNCHANGED not_arena

\* the sizes the caller asks for: a block, two blocks, and all that is free
\* in the first region
HandleSizes ==
    {MEM_ALIGN_SIZE, 2 * MEM_ALIGN_SIZE,
     MEM_INIT_SIZE - MEM_MARGIN_SIZE - sizeof_dp_context}

NextHandle ==
    \/ handle_dp_init
    \/ handle_dp_save_stack
    \/ handle_dp_flush_stack
    \/ \E size \in HandleSizes : handle_dp_malloc(size)
    \/ \E len \in {0, 12} : handle_dp_fill(len)

SpecHandle == InitArena /\ [][NextHandle]_vars

\* C30: a stack handle stays usable across restores: after h =
\* gaba_dp_save_stack, gaba_dp_flush_stack(h), further fills or allocations
\* and gaba_dp_flush_stack(h) again, (curr_mem, stack_top, stack_end) are
\* what the first gaba_dp_flush_stack(h) left
C30_HandleSurvivesRestore ==
    (arena.pc \in {"handle", "lost"} /\ arena.a.ret = "restored"
         /\ arena.n >= 2)
        => stack_of(arena.a) = arena.first

====
